---------------------------- MODULE Spec2Model ----------------------------
(***************************************************************************)
(* Recursive single-block SHA-256 (voidxno/fast-recursive-sha256).         *)
(*                                                                         *)
(* Representation.  TLC integers are 32-bit signed, so a uint32_t is kept  *)
(* exactly as a pair <<hi, lo>> of its two 16-bit halves; all arithmetic   *)
(* is modulo 2^32.  A 128-bit register (__m128i, uint32x4_t) is a tuple of *)
(* four words: element k (1..4) is the 32-bit lane k-1, lane 0 being bits  *)
(* 31:0, i.e. the word at the lowest address.  A byte buffer uint8_t b[n]  *)
(* is a sequence of n bytes: element i+1 is b[i].                          *)
(***************************************************************************)
EXTENDS Integers, Sequences, FiniteSets, TLC

-----------------------------------------------------------------------------
(* 32-bit word arithmetic *)

RECURSIVE BitXor(_, _, _)
BitXor(a, b, n) ==
  IF n = 0 THEN 0
  ELSE ((a + b) % 2) + 2 * BitXor(a \div 2, b \div 2, n - 1)

RECURSIVE BitAnd(_, _, _)
BitAnd(a, b, n) ==
  IF n = 0 THEN 0
  ELSE ((a % 2) * (b % 2)) + 2 * BitAnd(a \div 2, b \div 2, n - 1)

\* byte-wide tables of ^ and &
XorTab == [a \in 0..255 |-> [b \in 0..255 |-> BitXor(a, b, 8)]]
AndTab == [a \in 0..255 |-> [b \in 0..255 |-> BitAnd(a, b, 8)]]

Xor16(a, b) == XorTab[a \div 256][b \div 256] * 256 + XorTab[a % 256][b % 256]
And16(a, b) == AndTab[a \div 256][b \div 256] * 256 + AndTab[a % 256][b % 256]

\* x ^ y, x & y, ~x on uint32_t
XOR(x, y) == <<Xor16(x[1], y[1]), Xor16(x[2], y[2])>>
AND(x, y) == <<And16(x[1], y[1]), And16(x[2], y[2])>>
NOT(x) == <<65535 - x[1], 65535 - x[2]>>

\* x + y on uint32_t (wraps modulo 2^32)
ADD(x, y) ==
  LET lo == x[2] + y[2]
  IN  <<(x[1] + y[1] + (lo \div 65536)) % 65536, lo % 65536>>

\* rotate right by n, 0 < n < 16
RotrSmall(x, n) ==
  LET p == 2 ^ n
      q == 2 ^ (16 - n)
  IN  <<(x[1] \div p) + (x[2] % p) * q, (x[2] \div p) + (x[1] % p) * q>>

\* rotate right by n, 0 < n < 32
ROTR(x, n) ==
  IF n < 16 THEN RotrSmall(x, n)
  ELSE IF n = 16 THEN <<x[2], x[1]>>
  ELSE RotrSmall(<<x[2], x[1]>>, n - 16)

\* logical shift right by n, 0 < n < 16
SHR(x, n) ==
  LET p == 2 ^ n
      q == 2 ^ (16 - n)
  IN  <<x[1] \div p, (x[2] \div p) + (x[1] % p) * q>>

\* the SHA-256 functions (FIPS 180-4, 4.1.2)
Ch(x, y, z) == XOR(AND(x, y), AND(NOT(x), z))
\* Maj as the parity of its arguments
Maj_Parity(x, y, z) == XOR(XOR(x, y), z)

Maj(x, y, z) == XOR(XOR(AND(x, y), AND(x, z)), AND(y, z))
BSIG0(x) == XOR(XOR(ROTR(x, 2), ROTR(x, 13)), ROTR(x, 22))
BSIG1(x) == XOR(XOR(ROTR(x, 6), ROTR(x, 11)), ROTR(x, 25))
SSIG0(x) == XOR(XOR(ROTR(x, 7), ROTR(x, 18)), SHR(x, 3))
SSIG1(x) == XOR(XOR(ROTR(x, 17), ROTR(x, 19)), SHR(x, 10))

-----------------------------------------------------------------------------
(* Memory and register helpers *)

\* the uint32_t 0xHHHHLLLL
U32(hi, lo) == <<hi, lo>>

\* bswap_32(x)
bswap_32(x) == <<(x[2] % 256) * 256 + (x[2] \div 256), (x[1] % 256) * 256 + (x[1] \div 256)>>

\* the four bytes of a word as stored in (little-endian) memory
WordBytes(x) == <<x[2] % 256, x[2] \div 256, x[1] % 256, x[1] \div 256>>

\* the uint32_t read from memory at byte offset off (0-based) of buffer b
WordAt(b, off) == <<b[off + 4] * 256 + b[off + 3], b[off + 2] * 256 + b[off + 1]>>

\* a 16-byte load / store at byte offset off: _mm_loadu_si128, vld1q_u32
Load128(b, off) == <<WordAt(b, off), WordAt(b, off + 4), WordAt(b, off + 8), WordAt(b, off + 12)>>
VecBytes(v) == WordBytes(v[1]) \o WordBytes(v[2]) \o WordBytes(v[3]) \o WordBytes(v[4])

\* memcpy(b + off, bytes, Len(bytes))
MemWrite(b, off, bytes) ==
  SubSeq(b, 1, off) \o bytes \o SubSeq(b, off + Len(bytes) + 1, Len(b))

\* _mm_storeu_si128, vst1q_u32
Store128(b, off, v) == MemWrite(b, off, VecBytes(v))

\* _mm_add_epi32 without the carries: the lane-wise exclusive or
_mm_add_epi32_NoCarry(a, b) == [i \in 1..4 |-> XOR(a[i], b[i])]

\* lane-wise 32-bit addition
_mm_add_epi32(a, b) == <<ADD(a[1], b[1]), ADD(a[2], b[2]), ADD(a[3], b[3]), ADD(a[4], b[4])>>

\* array of 64x constants for SHA256 rounds
K64 ==
  <<
  U32(\h428A, \h2F98), U32(\h7137, \h4491), U32(\hB5C0, \hFBCF), U32(\hE9B5, \hDBA5),
  U32(\h3956, \hC25B), U32(\h59F1, \h11F1), U32(\h923F, \h82A4), U32(\hAB1C, \h5ED5),
  U32(\hD807, \hAA98), U32(\h1283, \h5B01), U32(\h2431, \h85BE), U32(\h550C, \h7DC3),
  U32(\h72BE, \h5D74), U32(\h80DE, \hB1FE), U32(\h9BDC, \h06A7), U32(\hC19B, \hF174),
  U32(\hE49B, \h69C1), U32(\hEFBE, \h4786), U32(\h0FC1, \h9DC6), U32(\h240C, \hA1CC),
  U32(\h2DE9, \h2C6F), U32(\h4A74, \h84AA), U32(\h5CB0, \hA9DC), U32(\h76F9, \h88DA),
  U32(\h983E, \h5152), U32(\hA831, \hC66D), U32(\hB003, \h27C8), U32(\hBF59, \h7FC7),
  U32(\hC6E0, \h0BF3), U32(\hD5A7, \h9147), U32(\h06CA, \h6351), U32(\h1429, \h2967),
  U32(\h27B7, \h0A85), U32(\h2E1B, \h2138), U32(\h4D2C, \h6DFC), U32(\h5338, \h0D13),
  U32(\h650A, \h7354), U32(\h766A, \h0ABB), U32(\h81C2, \hC92E), U32(\h9272, \h2C85),
  U32(\hA2BF, \hE8A1), U32(\hA81A, \h664B), U32(\hC24B, \h8B70), U32(\hC76C, \h51A3),
  U32(\hD192, \hE819), U32(\hD699, \h0624), U32(\hF40E, \h3585), U32(\h106A, \hA070),
  U32(\h19A4, \hC116), U32(\h1E37, \h6C08), U32(\h2748, \h774C), U32(\h34B0, \hBCB5),
  U32(\h391C, \h0CB3), U32(\h4ED8, \hAA4A), U32(\h5B9C, \hCA4F), U32(\h682E, \h6FF3),
  U32(\h748F, \h82EE), U32(\h78A5, \h636F), U32(\h84C8, \h7814), U32(\h8CC7, \h0208),
  U32(\h90BE, \hFFFA), U32(\hA450, \h6CEB), U32(\hBEF9, \hA3F7), U32(\hC671, \h78F2)
  >>

\* init values for SHA256 rounds, 8x A-H logic (state[8] of the reference functions)
InitState ==
  << U32(\h6A09, \hE667), U32(\hBB67, \hAE85), U32(\h3C6E, \hF372), U32(\hA54F, \hF53A),
     U32(\h510E, \h527F), U32(\h9B05, \h688C), U32(\h1F83, \hD9AB), U32(\h5BE0, \hCD19) >>

-----------------------------------------------------------------------------
(* SingleBlockHash: SHA-256 of one padded 64-byte block, FIPS 180-4 6.2.2, *)
(* written from the standard and independent of the intrinsics below.      *)

\* big-endian word t (0..15) of a 64-byte block
BEWord(blk, t) == <<blk[4 * t + 1] * 256 + blk[4 * t + 2], blk[4 * t + 3] * 256 + blk[4 * t + 4]>>

RECURSIVE StdSchedule(_)
StdSchedule(w) ==
  IF Len(w) = 64 THEN w
  ELSE LET t == Len(w) + 1
       IN  StdSchedule(Append(w,
             ADD(ADD(SSIG1(w[t - 2]), w[t - 7]), ADD(SSIG0(w[t - 15]), w[t - 16]))))

StdRound(s, kw) ==
  LET t1 == ADD(ADD(ADD(s[8], BSIG1(s[5])), Ch(s[5], s[6], s[7])), kw)
      t2 == ADD(BSIG0(s[1]), Maj(s[1], s[2], s[3]))
  IN  <<ADD(t1, t2), s[1], s[2], s[3], ADD(s[4], t1), s[5], s[6], s[7]>>

RECURSIVE StdRounds(_, _, _)
StdRounds(s, w, t) ==
  IF Len(s) = 8 /\ t <= 64 THEN StdRounds(StdRound(s, ADD(K64[t], w[t])), w, t + 1) ELSE s

\* the 32 padding bytes of a 32-byte message: 0x80, zeros, 64-bit big-endian bit length 256
StdPadding == <<128>> \o [i \in 1..29 |-> 0] \o <<1, 0>>

BEBytes(x) == <<x[1] \div 256, x[1] % 256, x[2] \div 256, x[2] % 256>>

SingleBlockHash(h) ==
  LET blk == h \o StdPadding
      w   == StdSchedule([t \in 1..16 |-> BEWord(blk, t - 1)])
      s   == StdRounds(InitState, w, 1)
      out == [k \in 1..8 |-> ADD(InitState[k], s[k])]
  IN  BEBytes(out[1]) \o BEBytes(out[2]) \o BEBytes(out[3]) \o BEBytes(out[4]) \o
      BEBytes(out[5]) \o BEBytes(out[6]) \o BEBytes(out[7]) \o BEBytes(out[8])

RECURSIVE IterHash(_, _)
IterHash(h, n) == IF n = 0 THEN h ELSE IterHash(SingleBlockHash(h), n - 1)

-----------------------------------------------------------------------------
(* Intel SHA Extensions / SSE intrinsics, after the Intel Intrinsics Guide. *)
(* Register element k holds bits 32k-1 .. 32k-32.                          *)

\* a 64-bit literal 0xHHHHhhhhLLLLllll as <<low word, high word>>
Imm64(h1, h2, h3, h4) == <<U32(h3, h4), U32(h1, h2)>>

\* _mm_set_epi64x(e1, e0): e0 is bits 63:0, e1 bits 127:64
_mm_set_epi64x(e1, e0) == e0 \o e1

\* _mm_shuffle_epi32(a, imm8): lane i takes lane (imm8 >> 2i) & 3 of a
_mm_shuffle_epi32(a, imm8) ==
  <<a[(imm8 % 4) + 1], a[((imm8 \div 4) % 4) + 1],
    a[((imm8 \div 16) % 4) + 1], a[((imm8 \div 64) % 4) + 1]>>

\* _mm_alignr_epi8(a, b, n): bytes n..n+15 of the 32-byte value a:b (n a multiple of 4 here)
_mm_alignr_epi8(a, b, n) ==
  LET cat == b \o a
      k   == n \div 4
  IN  <<cat[k + 1], cat[k + 2], cat[k + 3], cat[k + 4]>>

\* _mm_blend_epi16(a, b, imm8): 16-bit lane j comes from b when bit j of imm8 is set
_mm_blend_epi16(a, b, imm8) ==
  LET bit(j) == (imm8 \div (2 ^ j)) % 2
      pick(i) == <<IF bit(2 * i - 1) = 1 THEN b[i][1] ELSE a[i][1],
                   IF bit(2 * i - 2) = 1 THEN b[i][2] ELSE a[i][2]>>
  IN  <<pick(1), pick(2), pick(3), pick(4)>>

\* _mm_shuffle_epi8(a, mask): byte i takes byte (mask byte i) & 15 of a, or 0 when its bit 7 is set
_mm_shuffle_epi8(a, mask) ==
  LET src == VecBytes(a)
      sel == VecBytes(mask)
      dst == [i \in 1..16 |-> IF sel[i] >= 128 THEN 0 ELSE src[(sel[i] % 16) + 1]]
  IN  Load128(dst, 0)

\* _mm_sha256rnds2_epu32(a, b, k): two rounds; a = CDGH, b = ABEF, k[63:0] = two W+K values
_mm_sha256rnds2_epu32(a, b, k) ==
  LET A0 == b[4]  B0 == b[3]  C0 == a[4]  D0 == a[3]
      E0 == b[2]  F0 == b[1]  G0 == a[2]  H0 == a[1]
      T0 == ADD(ADD(ADD(Ch(E0, F0, G0), BSIG1(E0)), k[1]), H0)
      A1 == ADD(ADD(T0, Maj(A0, B0, C0)), BSIG0(A0))
      E1 == ADD(T0, D0)
      T1 == ADD(ADD(ADD(Ch(E1, E0, F0), BSIG1(E1)), k[2]), G0)
      A2 == ADD(ADD(T1, Maj(A1, A0, B0)), BSIG0(A1))
      E2 == ADD(T1, C0)
  IN  <<E1, E2, A1, A2>>

\* _mm_sha256msg1_epu32(a, b): W[i] + sigma0(W[i+1]) for the four words of a, W4 = b[31:0]
_mm_sha256msg1_epu32(a, b) ==
  <<ADD(a[1], SSIG0(a[2])), ADD(a[2], SSIG0(a[3])),
    ADD(a[3], SSIG0(a[4])), ADD(a[4], SSIG0(b[1]))>>

\* _mm_sha256msg2_epu32(a, b): adds sigma1 of W14, W15 (b[95:64], b[127:96]) and of W16, W17
_mm_sha256msg2_epu32(a, b) ==
  LET W16 == ADD(a[1], SSIG1(b[3]))
      W17 == ADD(a[2], SSIG1(b[4]))
      W18 == ADD(a[3], SSIG1(W16))
      W19 == ADD(a[4], SSIG1(W17))
  IN  <<W16, W17, W18, W19>>
(* ARM Cryptography Extensions intrinsics (Arm ARM pseudo-code).  A        *)
(* uint32x4_t is the tuple of its four lanes, lane 0 first.                *)

vaddq_u32(a, b) == <<ADD(a[1], b[1]), ADD(a[2], b[2]), ADD(a[3], b[3]), ADD(a[4], b[4])>>

\* a uint32x4_t seen as uint8x16_t (little-endian lanes) and back
vreinterpretq_u8_u32(a) == VecBytes(a)
vreinterpretq_u32_u8(a) == Load128(a, 0)

\* byte reversal inside every 32-bit group of a uint8x16_t
vrev32q_u8(a) ==
  <<a[4], a[3], a[2], a[1], a[8], a[7], a[6], a[5],
    a[12], a[11], a[10], a[9], a[16], a[15], a[14], a[13]>>

\* one of the four steps of SHA256hash(X, Y, W): xy = <<X, Y>>
SHA256hashStep(xy, w) ==
  LET X == xy[1]
      Y == xy[2]
      t == ADD(ADD(ADD(Y[4], BSIG1(Y[1])), Ch(Y[1], Y[2], Y[3])), w)
      X3 == ADD(t, X[4])
      Y3 == ADD(ADD(t, BSIG0(X[1])), Maj(X[1], X[2], X[3]))
  IN  << <<Y3, X[1], X[2], X[3]>>, <<X3, Y[1], Y[2], Y[3]>> >>

SHA256hash(X, Y, W) ==
  SHA256hashStep(SHA256hashStep(SHA256hashStep(SHA256hashStep(<<X, Y>>, W[1]), W[2]), W[3]), W[4])

vsha256hq_u32(hash_abcd, hash_efgh, wk) == SHA256hash(hash_abcd, hash_efgh, wk)[1]
vsha256h2q_u32(hash_efgh, hash_abcd, wk) == SHA256hash(hash_abcd, hash_efgh, wk)[2]

vsha256su0q_u32(w0_3, w4_7) ==
  <<ADD(w0_3[1], SSIG0(w0_3[2])), ADD(w0_3[2], SSIG0(w0_3[3])),
    ADD(w0_3[3], SSIG0(w0_3[4])), ADD(w0_3[4], SSIG0(w4_7[1]))>>

vsha256su1q_u32(tw0_3, w8_11, w12_15) ==
  LET r0 == ADD(ADD(SSIG1(w12_15[3]), tw0_3[1]), w8_11[2])
      r1 == ADD(ADD(SSIG1(w12_15[4]), tw0_3[2]), w8_11[3])
      r2 == ADD(ADD(SSIG1(r0), tw0_3[3]), w8_11[4])
      r3 == ADD(ADD(SSIG1(r1), tw0_3[4]), w12_15[1])
  IN  <<r0, r1, r2, r3>>
-----------------------------------------------------------------------------
(* The kernels as statement listings.  A kernel is kept as the sequence of *)
(* its statements, grouped in the blocks its comments delimit; a statement *)
(* is <<"=", register, expression>> or <<"store", address, expression>>,   *)
(* an expression is <<"reg", name>>, <<"imm", n>>, <<"imm64", ...>>,       *)
(* <<"adr", array, index>> (the pointer &array[index], casts dropped) or   *)
(* <<intrinsic, arguments...>>.  Exec runs a listing on an environment:    *)
(*   r     the __m128i / uint32x4_t locals, by name                        *)
(*   cnt   per register, the round instructions that have written it       *)
(*   mem   the memory holding the callers' buffers; hash the argument      *)
(*   state, last   the arrays compress_digest is given                     *)
(*   ro    the static const tables                                         *)

\* init values for SHA256 rounds, A-H logic
abcdinit == <<U32(\h6A09, \hE667), U32(\hBB67, \hAE85), U32(\h3C6E, \hF372), U32(\hA54F, \hF53A)>>
efghinit == <<U32(\h510E, \h527F), U32(\h9B05, \h688C), U32(\h1F83, \hD9AB), U32(\h5BE0, \hCD19)>>
\* hpad0cache with the 0x80 byte at the other end of the word
hpad0cache_LittleEnd == <<U32(\h0000, \h0080), U32(\h0000, \h0000), U32(\h0000, \h0000), U32(\h0000, \h0000)>>

\* pre-arranged values for 3rd/4th 16bytes of 1x block, SHA256 padding logic
hpad0cache == <<U32(\h8000, \h0000), U32(\h0000, \h0000), U32(\h0000, \h0000), U32(\h0000, \h0000)>>
\* hpad1cache with the length in the first word
hpad1cache_LengthFirst == <<U32(\h0000, \h0100), U32(\h0000, \h0000), U32(\h0000, \h0000), U32(\h0000, \h0000)>>

hpad1cache == <<U32(\h0000, \h0000), U32(\h0000, \h0000), U32(\h0000, \h0000), U32(\h0000, \h0100)>>

\* the static const tables as they are loaded with the program
RoData ==
  [K64 |-> K64, abcdinit |-> abcdinit, efghinit |-> efghinit,
   hpad0cache |-> hpad0cache, hpad1cache |-> hpad1cache]

\* the instructions that do SHA256 rounds
RoundOps == {"_mm_sha256rnds2_epu32", "vsha256hq_u32", "vsha256h2q_u32"}

\* four consecutive uint32_t of an array
Words4(tab, idx) == <<tab[idx + 1], tab[idx + 2], tab[idx + 3], tab[idx + 4]>>

\* a 16-byte load from &array[index]: hash and last are uint8_t arrays, the others uint32_t
LoadAt(env, a) ==
  CASE a[2] = "hash"  -> Load128(env.mem, env.hash + a[3])
    [] a[2] = "last"  -> Load128(env.last, a[3])
    [] a[2] = "state" -> Words4(env.state, a[3])
    [] OTHER          -> Words4(env.ro[a[2]], a[3])

\* the array with four consecutive uint32_t replaced
PutWords4(tab, idx, v) == SubSeq(tab, 1, idx) \o v \o SubSeq(tab, idx + 5, Len(tab))

\* a 16-byte store to &array[index]
StoreAt(env, a, v) ==
  CASE a[2] = "hash"  -> [env EXCEPT !.mem = Store128(@, env.hash + a[3], v)]
    [] a[2] = "last"  -> [env EXCEPT !.last = Store128(@, a[3], v)]
    [] a[2] = "state" -> [env EXCEPT !.state = PutWords4(@, a[3], v)]
    [] OTHER          -> [env EXCEPT !.ro[a[2]] = PutWords4(@, a[3], v)]

\* the value of an expression
RECURSIVE Eval(_, _)
Eval(e, env) ==
  CASE e[1] = "reg"   -> env.r[e[2]]
    [] e[1] = "imm"   -> e[2]
    [] e[1] = "imm64" -> Imm64(e[2], e[3], e[4], e[5])
    [] e[1] \in {"_mm_loadu_si128", "_mm_load_si128", "vld1q_u32"} -> LoadAt(env, e[2])
    [] e[1] = "_mm_set_epi64x" -> _mm_set_epi64x(Eval(e[2], env), Eval(e[3], env))
    [] e[1] = "_mm_add_epi32" -> _mm_add_epi32(Eval(e[2], env), Eval(e[3], env))
    [] e[1] = "_mm_shuffle_epi32" -> _mm_shuffle_epi32(Eval(e[2], env), Eval(e[3], env))
    [] e[1] = "_mm_shuffle_epi8" -> _mm_shuffle_epi8(Eval(e[2], env), Eval(e[3], env))
    [] e[1] = "_mm_alignr_epi8" ->
         _mm_alignr_epi8(Eval(e[2], env), Eval(e[3], env), Eval(e[4], env))
    [] e[1] = "_mm_blend_epi16" ->
         _mm_blend_epi16(Eval(e[2], env), Eval(e[3], env), Eval(e[4], env))
    [] e[1] = "_mm_sha256rnds2_epu32" ->
         _mm_sha256rnds2_epu32(Eval(e[2], env), Eval(e[3], env), Eval(e[4], env))
    [] e[1] = "_mm_sha256msg1_epu32" -> _mm_sha256msg1_epu32(Eval(e[2], env), Eval(e[3], env))
    [] e[1] = "_mm_sha256msg2_epu32" -> _mm_sha256msg2_epu32(Eval(e[2], env), Eval(e[3], env))
    [] e[1] = "vaddq_u32" -> vaddq_u32(Eval(e[2], env), Eval(e[3], env))
    [] e[1] = "vreinterpretq_u8_u32" -> vreinterpretq_u8_u32(Eval(e[2], env))
    [] e[1] = "vreinterpretq_u32_u8" -> vreinterpretq_u32_u8(Eval(e[2], env))
    [] e[1] = "vrev32q_u8" -> vrev32q_u8(Eval(e[2], env))
    [] e[1] = "vsha256hq_u32" ->
         vsha256hq_u32(Eval(e[2], env), Eval(e[3], env), Eval(e[4], env))
    [] e[1] = "vsha256h2q_u32" ->
         vsha256h2q_u32(Eval(e[2], env), Eval(e[3], env), Eval(e[4], env))
    [] e[1] = "vsha256su0q_u32" -> vsha256su0q_u32(Eval(e[2], env), Eval(e[3], env))
    [] e[1] = "vsha256su1q_u32" ->
         vsha256su1q_u32(Eval(e[2], env), Eval(e[3], env), Eval(e[4], env))

\* one statement
Step(env, s) ==
  IF s[1] = "store"
    THEN StoreAt(env, s[2], Eval(s[3], env))
    ELSE [env EXCEPT !.r[s[2]] = Eval(s[3], env),
                     !.cnt[s[2]] = IF s[3][1] \in RoundOps THEN @ + 1 ELSE @]

\* the statements i.. of a block, in order
RECURSIVE ExecBlock(_, _, _)
ExecBlock(env, blk, i) ==
  IF env.hash >= 0 /\ i <= Len(blk) THEN ExecBlock(Step(env, blk[i]), blk, i + 1) ELSE env

\* the blocks b.. of a listing, in order
RECURSIVE Exec(_, _, _)
Exec(env, prog, b) ==
  IF env.hash >= 0 /\ b <= Len(prog) THEN Exec(ExecBlock(env, prog[b], 1), prog, b + 1) ELSE env

-----------------------------------------------------------------------------
(* The listings, statement by statement from the sources.                  *)

\* ----------------------------------------------------------------------
\* compress_digest (rsha256_ref_x64.cxx, lines 66-273)

\* the vector locals, all holding j
compress_digest_x64_locals(j) ==
  [SHUF_MASK |-> j, STATE0 |-> j, STATE1 |-> j, MSG |-> j, MSGTMP0 |-> j, MSGTMP1 |-> j,
   MSGTMP2 |-> j, MSGTMP3 |-> j, ABEF_SAVE |-> j, CDGH_SAVE |-> j]

\* the statements of compress_digest, block by block
compress_digest_x64 ==
  <<
    \* shuffle mask for byte order required by SHA Extensions
    << <<"=", "SHUF_MASK", <<"_mm_set_epi64x", <<"imm64", \h0C0D, \h0E0F, \h0809, \h0A0B>>, <<"imm64", \h0405, \h0607, \h0001, \h0203>>>>>> >>,
    \* init state values for SHA256 rounds
    << <<"=", "STATE0", <<"_mm_loadu_si128", <<"adr", "state", 0>>>>>>,
       <<"=", "STATE1", <<"_mm_loadu_si128", <<"adr", "state", 4>>>>>> >>,
    \* shuffle 32bytes hash/data given required by SHA Extensions
    << <<"=", "STATE0", <<"_mm_shuffle_epi32", <<"reg", "STATE0">>, <<"imm", 177>>>>>>,
       <<"=", "STATE1", <<"_mm_shuffle_epi32", <<"reg", "STATE1">>, <<"imm", 27>>>>>>,
       <<"=", "MSGTMP0", <<"_mm_alignr_epi8", <<"reg", "STATE0">>, <<"reg", "STATE1">>, <<"imm", 8>>>>>>,
       <<"=", "STATE1", <<"_mm_blend_epi16", <<"reg", "STATE1">>, <<"reg", "STATE0">>, <<"imm", 240>>>>>>,
       <<"=", "STATE0", <<"reg", "MSGTMP0">>>> >>,
    \* save current state, 8x A-H logic
    << <<"=", "ABEF_SAVE", <<"reg", "STATE0">>>>,
       <<"=", "CDGH_SAVE", <<"reg", "STATE1">>>> >>,
    \* rounds 0-3
    << <<"=", "MSG", <<"_mm_loadu_si128", <<"adr", "last", 0>>>>>>,
       <<"=", "MSG", <<"_mm_shuffle_epi8", <<"reg", "MSG">>, <<"reg", "SHUF_MASK">>>>>>,
       <<"=", "MSGTMP0", <<"reg", "MSG">>>>,
       <<"=", "MSG", <<"_mm_add_epi32", <<"reg", "MSG">>, <<"_mm_load_si128", <<"adr", "K64", 0>>>>>>>>,
       <<"=", "STATE1", <<"_mm_sha256rnds2_epu32", <<"reg", "STATE1">>, <<"reg", "STATE0">>, <<"reg", "MSG">>>>>>,
       <<"=", "MSG", <<"_mm_shuffle_epi32", <<"reg", "MSG">>, <<"imm", 14>>>>>>,
       <<"=", "STATE0", <<"_mm_sha256rnds2_epu32", <<"reg", "STATE0">>, <<"reg", "STATE1">>, <<"reg", "MSG">>>>>> >>,
    \* rounds 4-7
    << <<"=", "MSG", <<"_mm_loadu_si128", <<"adr", "last", 16>>>>>>,
       <<"=", "MSG", <<"_mm_shuffle_epi8", <<"reg", "MSG">>, <<"reg", "SHUF_MASK">>>>>>,
       <<"=", "MSGTMP1", <<"reg", "MSG">>>>,
       <<"=", "MSG", <<"_mm_add_epi32", <<"reg", "MSG">>, <<"_mm_load_si128", <<"adr", "K64", 4>>>>>>>>,
       <<"=", "STATE1", <<"_mm_sha256rnds2_epu32", <<"reg", "STATE1">>, <<"reg", "STATE0">>, <<"reg", "MSG">>>>>>,
       <<"=", "MSG", <<"_mm_shuffle_epi32", <<"reg", "MSG">>, <<"imm", 14>>>>>>,
       <<"=", "STATE0", <<"_mm_sha256rnds2_epu32", <<"reg", "STATE0">>, <<"reg", "STATE1">>, <<"reg", "MSG">>>>>>,
       <<"=", "MSGTMP0", <<"_mm_sha256msg1_epu32", <<"reg", "MSGTMP0">>, <<"reg", "MSGTMP1">>>>>> >>,
    \* rounds 8-11
    << <<"=", "MSG", <<"_mm_loadu_si128", <<"adr", "last", 32>>>>>>,
       <<"=", "MSG", <<"_mm_shuffle_epi8", <<"reg", "MSG">>, <<"reg", "SHUF_MASK">>>>>>,
       <<"=", "MSGTMP2", <<"reg", "MSG">>>>,
       <<"=", "MSG", <<"_mm_add_epi32", <<"reg", "MSG">>, <<"_mm_load_si128", <<"adr", "K64", 8>>>>>>>>,
       <<"=", "STATE1", <<"_mm_sha256rnds2_epu32", <<"reg", "STATE1">>, <<"reg", "STATE0">>, <<"reg", "MSG">>>>>>,
       <<"=", "MSG", <<"_mm_shuffle_epi32", <<"reg", "MSG">>, <<"imm", 14>>>>>>,
       <<"=", "STATE0", <<"_mm_sha256rnds2_epu32", <<"reg", "STATE0">>, <<"reg", "STATE1">>, <<"reg", "MSG">>>>>>,
       <<"=", "MSGTMP1", <<"_mm_sha256msg1_epu32", <<"reg", "MSGTMP1">>, <<"reg", "MSGTMP2">>>>>> >>,
    \* rounds 12-15
    << <<"=", "MSG", <<"_mm_loadu_si128", <<"adr", "last", 48>>>>>>,
       <<"=", "MSG", <<"_mm_shuffle_epi8", <<"reg", "MSG">>, <<"reg", "SHUF_MASK">>>>>>,
       <<"=", "MSGTMP3", <<"reg", "MSG">>>>,
       <<"=", "MSG", <<"_mm_add_epi32", <<"reg", "MSG">>, <<"_mm_load_si128", <<"adr", "K64", 12>>>>>>>>,
       <<"=", "STATE1", <<"_mm_sha256rnds2_epu32", <<"reg", "STATE1">>, <<"reg", "STATE0">>, <<"reg", "MSG">>>>>>,
       <<"=", "MSGTMP0", <<"_mm_add_epi32", <<"reg", "MSGTMP0">>, <<"_mm_alignr_epi8", <<"reg", "MSGTMP3">>, <<"reg", "MSGTMP2">>, <<"imm", 4>>>>>>>>,
       <<"=", "MSGTMP0", <<"_mm_sha256msg2_epu32", <<"reg", "MSGTMP0">>, <<"reg", "MSGTMP3">>>>>>,
       <<"=", "MSG", <<"_mm_shuffle_epi32", <<"reg", "MSG">>, <<"imm", 14>>>>>>,
       <<"=", "STATE0", <<"_mm_sha256rnds2_epu32", <<"reg", "STATE0">>, <<"reg", "STATE1">>, <<"reg", "MSG">>>>>>,
       <<"=", "MSGTMP2", <<"_mm_sha256msg1_epu32", <<"reg", "MSGTMP2">>, <<"reg", "MSGTMP3">>>>>> >>,
    \* rounds 16-19
    << <<"=", "MSG", <<"reg", "MSGTMP0">>>>,
       <<"=", "MSG", <<"_mm_add_epi32", <<"reg", "MSG">>, <<"_mm_load_si128", <<"adr", "K64", 16>>>>>>>>,
       <<"=", "STATE1", <<"_mm_sha256rnds2_epu32", <<"reg", "STATE1">>, <<"reg", "STATE0">>, <<"reg", "MSG">>>>>>,
       <<"=", "MSGTMP1", <<"_mm_add_epi32", <<"reg", "MSGTMP1">>, <<"_mm_alignr_epi8", <<"reg", "MSGTMP0">>, <<"reg", "MSGTMP3">>, <<"imm", 4>>>>>>>>,
       <<"=", "MSGTMP1", <<"_mm_sha256msg2_epu32", <<"reg", "MSGTMP1">>, <<"reg", "MSGTMP0">>>>>>,
       <<"=", "MSG", <<"_mm_shuffle_epi32", <<"reg", "MSG">>, <<"imm", 14>>>>>>,
       <<"=", "STATE0", <<"_mm_sha256rnds2_epu32", <<"reg", "STATE0">>, <<"reg", "STATE1">>, <<"reg", "MSG">>>>>>,
       <<"=", "MSGTMP3", <<"_mm_sha256msg1_epu32", <<"reg", "MSGTMP3">>, <<"reg", "MSGTMP0">>>>>> >>,
    \* rounds 20-23
    << <<"=", "MSG", <<"reg", "MSGTMP1">>>>,
       <<"=", "MSG", <<"_mm_add_epi32", <<"reg", "MSG">>, <<"_mm_load_si128", <<"adr", "K64", 20>>>>>>>>,
       <<"=", "STATE1", <<"_mm_sha256rnds2_epu32", <<"reg", "STATE1">>, <<"reg", "STATE0">>, <<"reg", "MSG">>>>>>,
       <<"=", "MSGTMP2", <<"_mm_add_epi32", <<"reg", "MSGTMP2">>, <<"_mm_alignr_epi8", <<"reg", "MSGTMP1">>, <<"reg", "MSGTMP0">>, <<"imm", 4>>>>>>>>,
       <<"=", "MSGTMP2", <<"_mm_sha256msg2_epu32", <<"reg", "MSGTMP2">>, <<"reg", "MSGTMP1">>>>>>,
       <<"=", "MSG", <<"_mm_shuffle_epi32", <<"reg", "MSG">>, <<"imm", 14>>>>>>,
       <<"=", "STATE0", <<"_mm_sha256rnds2_epu32", <<"reg", "STATE0">>, <<"reg", "STATE1">>, <<"reg", "MSG">>>>>>,
       <<"=", "MSGTMP0", <<"_mm_sha256msg1_epu32", <<"reg", "MSGTMP0">>, <<"reg", "MSGTMP1">>>>>> >>,
    \* rounds 24-27
    << <<"=", "MSG", <<"reg", "MSGTMP2">>>>,
       <<"=", "MSG", <<"_mm_add_epi32", <<"reg", "MSG">>, <<"_mm_load_si128", <<"adr", "K64", 24>>>>>>>>,
       <<"=", "STATE1", <<"_mm_sha256rnds2_epu32", <<"reg", "STATE1">>, <<"reg", "STATE0">>, <<"reg", "MSG">>>>>>,
       <<"=", "MSGTMP3", <<"_mm_add_epi32", <<"reg", "MSGTMP3">>, <<"_mm_alignr_epi8", <<"reg", "MSGTMP2">>, <<"reg", "MSGTMP1">>, <<"imm", 4>>>>>>>>,
       <<"=", "MSGTMP3", <<"_mm_sha256msg2_epu32", <<"reg", "MSGTMP3">>, <<"reg", "MSGTMP2">>>>>>,
       <<"=", "MSG", <<"_mm_shuffle_epi32", <<"reg", "MSG">>, <<"imm", 14>>>>>>,
       <<"=", "STATE0", <<"_mm_sha256rnds2_epu32", <<"reg", "STATE0">>, <<"reg", "STATE1">>, <<"reg", "MSG">>>>>>,
       <<"=", "MSGTMP1", <<"_mm_sha256msg1_epu32", <<"reg", "MSGTMP1">>, <<"reg", "MSGTMP2">>>>>> >>,
    \* rounds 28-31
    << <<"=", "MSG", <<"reg", "MSGTMP3">>>>,
       <<"=", "MSG", <<"_mm_add_epi32", <<"reg", "MSG">>, <<"_mm_load_si128", <<"adr", "K64", 28>>>>>>>>,
       <<"=", "STATE1", <<"_mm_sha256rnds2_epu32", <<"reg", "STATE1">>, <<"reg", "STATE0">>, <<"reg", "MSG">>>>>>,
       <<"=", "MSGTMP0", <<"_mm_add_epi32", <<"reg", "MSGTMP0">>, <<"_mm_alignr_epi8", <<"reg", "MSGTMP3">>, <<"reg", "MSGTMP2">>, <<"imm", 4>>>>>>>>,
       <<"=", "MSGTMP0", <<"_mm_sha256msg2_epu32", <<"reg", "MSGTMP0">>, <<"reg", "MSGTMP3">>>>>>,
       <<"=", "MSG", <<"_mm_shuffle_epi32", <<"reg", "MSG">>, <<"imm", 14>>>>>>,
       <<"=", "STATE0", <<"_mm_sha256rnds2_epu32", <<"reg", "STATE0">>, <<"reg", "STATE1">>, <<"reg", "MSG">>>>>>,
       <<"=", "MSGTMP2", <<"_mm_sha256msg1_epu32", <<"reg", "MSGTMP2">>, <<"reg", "MSGTMP3">>>>>> >>,
    \* rounds 32-35
    << <<"=", "MSG", <<"reg", "MSGTMP0">>>>,
       <<"=", "MSG", <<"_mm_add_epi32", <<"reg", "MSG">>, <<"_mm_load_si128", <<"adr", "K64", 32>>>>>>>>,
       <<"=", "STATE1", <<"_mm_sha256rnds2_epu32", <<"reg", "STATE1">>, <<"reg", "STATE0">>, <<"reg", "MSG">>>>>>,
       <<"=", "MSGTMP1", <<"_mm_add_epi32", <<"reg", "MSGTMP1">>, <<"_mm_alignr_epi8", <<"reg", "MSGTMP0">>, <<"reg", "MSGTMP3">>, <<"imm", 4>>>>>>>>,
       <<"=", "MSGTMP1", <<"_mm_sha256msg2_epu32", <<"reg", "MSGTMP1">>, <<"reg", "MSGTMP0">>>>>>,
       <<"=", "MSG", <<"_mm_shuffle_epi32", <<"reg", "MSG">>, <<"imm", 14>>>>>>,
       <<"=", "STATE0", <<"_mm_sha256rnds2_epu32", <<"reg", "STATE0">>, <<"reg", "STATE1">>, <<"reg", "MSG">>>>>>,
       <<"=", "MSGTMP3", <<"_mm_sha256msg1_epu32", <<"reg", "MSGTMP3">>, <<"reg", "MSGTMP0">>>>>> >>,
    \* rounds 36-39
    << <<"=", "MSG", <<"reg", "MSGTMP1">>>>,
       <<"=", "MSG", <<"_mm_add_epi32", <<"reg", "MSG">>, <<"_mm_load_si128", <<"adr", "K64", 36>>>>>>>>,
       <<"=", "STATE1", <<"_mm_sha256rnds2_epu32", <<"reg", "STATE1">>, <<"reg", "STATE0">>, <<"reg", "MSG">>>>>>,
       <<"=", "MSGTMP2", <<"_mm_add_epi32", <<"reg", "MSGTMP2">>, <<"_mm_alignr_epi8", <<"reg", "MSGTMP1">>, <<"reg", "MSGTMP0">>, <<"imm", 4>>>>>>>>,
       <<"=", "MSGTMP2", <<"_mm_sha256msg2_epu32", <<"reg", "MSGTMP2">>, <<"reg", "MSGTMP1">>>>>>,
       <<"=", "MSG", <<"_mm_shuffle_epi32", <<"reg", "MSG">>, <<"imm", 14>>>>>>,
       <<"=", "STATE0", <<"_mm_sha256rnds2_epu32", <<"reg", "STATE0">>, <<"reg", "STATE1">>, <<"reg", "MSG">>>>>>,
       <<"=", "MSGTMP0", <<"_mm_sha256msg1_epu32", <<"reg", "MSGTMP0">>, <<"reg", "MSGTMP1">>>>>> >>,
    \* rounds 40-43
    << <<"=", "MSG", <<"reg", "MSGTMP2">>>>,
       <<"=", "MSG", <<"_mm_add_epi32", <<"reg", "MSG">>, <<"_mm_load_si128", <<"adr", "K64", 40>>>>>>>>,
       <<"=", "STATE1", <<"_mm_sha256rnds2_epu32", <<"reg", "STATE1">>, <<"reg", "STATE0">>, <<"reg", "MSG">>>>>>,
       <<"=", "MSGTMP3", <<"_mm_add_epi32", <<"reg", "MSGTMP3">>, <<"_mm_alignr_epi8", <<"reg", "MSGTMP2">>, <<"reg", "MSGTMP1">>, <<"imm", 4>>>>>>>>,
       <<"=", "MSGTMP3", <<"_mm_sha256msg2_epu32", <<"reg", "MSGTMP3">>, <<"reg", "MSGTMP2">>>>>>,
       <<"=", "MSG", <<"_mm_shuffle_epi32", <<"reg", "MSG">>, <<"imm", 14>>>>>>,
       <<"=", "STATE0", <<"_mm_sha256rnds2_epu32", <<"reg", "STATE0">>, <<"reg", "STATE1">>, <<"reg", "MSG">>>>>>,
       <<"=", "MSGTMP1", <<"_mm_sha256msg1_epu32", <<"reg", "MSGTMP1">>, <<"reg", "MSGTMP2">>>>>> >>,
    \* rounds 44-47
    << <<"=", "MSG", <<"reg", "MSGTMP3">>>>,
       <<"=", "MSG", <<"_mm_add_epi32", <<"reg", "MSG">>, <<"_mm_load_si128", <<"adr", "K64", 44>>>>>>>>,
       <<"=", "STATE1", <<"_mm_sha256rnds2_epu32", <<"reg", "STATE1">>, <<"reg", "STATE0">>, <<"reg", "MSG">>>>>>,
       <<"=", "MSGTMP0", <<"_mm_add_epi32", <<"reg", "MSGTMP0">>, <<"_mm_alignr_epi8", <<"reg", "MSGTMP3">>, <<"reg", "MSGTMP2">>, <<"imm", 4>>>>>>>>,
       <<"=", "MSGTMP0", <<"_mm_sha256msg2_epu32", <<"reg", "MSGTMP0">>, <<"reg", "MSGTMP3">>>>>>,
       <<"=", "MSG", <<"_mm_shuffle_epi32", <<"reg", "MSG">>, <<"imm", 14>>>>>>,
       <<"=", "STATE0", <<"_mm_sha256rnds2_epu32", <<"reg", "STATE0">>, <<"reg", "STATE1">>, <<"reg", "MSG">>>>>>,
       <<"=", "MSGTMP2", <<"_mm_sha256msg1_epu32", <<"reg", "MSGTMP2">>, <<"reg", "MSGTMP3">>>>>> >>,
    \* rounds 48-51
    << <<"=", "MSG", <<"reg", "MSGTMP0">>>>,
       <<"=", "MSG", <<"_mm_add_epi32", <<"reg", "MSG">>, <<"_mm_load_si128", <<"adr", "K64", 48>>>>>>>>,
       <<"=", "STATE1", <<"_mm_sha256rnds2_epu32", <<"reg", "STATE1">>, <<"reg", "STATE0">>, <<"reg", "MSG">>>>>>,
       <<"=", "MSGTMP1", <<"_mm_add_epi32", <<"reg", "MSGTMP1">>, <<"_mm_alignr_epi8", <<"reg", "MSGTMP0">>, <<"reg", "MSGTMP3">>, <<"imm", 4>>>>>>>>,
       <<"=", "MSGTMP1", <<"_mm_sha256msg2_epu32", <<"reg", "MSGTMP1">>, <<"reg", "MSGTMP0">>>>>>,
       <<"=", "MSG", <<"_mm_shuffle_epi32", <<"reg", "MSG">>, <<"imm", 14>>>>>>,
       <<"=", "STATE0", <<"_mm_sha256rnds2_epu32", <<"reg", "STATE0">>, <<"reg", "STATE1">>, <<"reg", "MSG">>>>>>,
       <<"=", "MSGTMP3", <<"_mm_sha256msg1_epu32", <<"reg", "MSGTMP3">>, <<"reg", "MSGTMP0">>>>>> >>,
    \* rounds 52-55
    << <<"=", "MSG", <<"reg", "MSGTMP1">>>>,
       <<"=", "MSG", <<"_mm_add_epi32", <<"reg", "MSG">>, <<"_mm_load_si128", <<"adr", "K64", 52>>>>>>>>,
       <<"=", "STATE1", <<"_mm_sha256rnds2_epu32", <<"reg", "STATE1">>, <<"reg", "STATE0">>, <<"reg", "MSG">>>>>>,
       <<"=", "MSGTMP2", <<"_mm_add_epi32", <<"reg", "MSGTMP2">>, <<"_mm_alignr_epi8", <<"reg", "MSGTMP1">>, <<"reg", "MSGTMP0">>, <<"imm", 4>>>>>>>>,
       <<"=", "MSGTMP2", <<"_mm_sha256msg2_epu32", <<"reg", "MSGTMP2">>, <<"reg", "MSGTMP1">>>>>>,
       <<"=", "MSG", <<"_mm_shuffle_epi32", <<"reg", "MSG">>, <<"imm", 14>>>>>>,
       <<"=", "STATE0", <<"_mm_sha256rnds2_epu32", <<"reg", "STATE0">>, <<"reg", "STATE1">>, <<"reg", "MSG">>>>>> >>,
    \* rounds 56-59
    << <<"=", "MSG", <<"reg", "MSGTMP2">>>>,
       <<"=", "MSG", <<"_mm_add_epi32", <<"reg", "MSG">>, <<"_mm_load_si128", <<"adr", "K64", 56>>>>>>>>,
       <<"=", "STATE1", <<"_mm_sha256rnds2_epu32", <<"reg", "STATE1">>, <<"reg", "STATE0">>, <<"reg", "MSG">>>>>>,
       <<"=", "MSGTMP3", <<"_mm_add_epi32", <<"reg", "MSGTMP3">>, <<"_mm_alignr_epi8", <<"reg", "MSGTMP2">>, <<"reg", "MSGTMP1">>, <<"imm", 4>>>>>>>>,
       <<"=", "MSGTMP3", <<"_mm_sha256msg2_epu32", <<"reg", "MSGTMP3">>, <<"reg", "MSGTMP2">>>>>>,
       <<"=", "MSG", <<"_mm_shuffle_epi32", <<"reg", "MSG">>, <<"imm", 14>>>>>>,
       <<"=", "STATE0", <<"_mm_sha256rnds2_epu32", <<"reg", "STATE0">>, <<"reg", "STATE1">>, <<"reg", "MSG">>>>>> >>,
    \* rounds 60-63
    << <<"=", "MSG", <<"reg", "MSGTMP3">>>>,
       <<"=", "MSG", <<"_mm_add_epi32", <<"reg", "MSG">>, <<"_mm_load_si128", <<"adr", "K64", 60>>>>>>>>,
       <<"=", "STATE1", <<"_mm_sha256rnds2_epu32", <<"reg", "STATE1">>, <<"reg", "STATE0">>, <<"reg", "MSG">>>>>>,
       <<"=", "MSG", <<"_mm_shuffle_epi32", <<"reg", "MSG">>, <<"imm", 14>>>>>>,
       <<"=", "STATE0", <<"_mm_sha256rnds2_epu32", <<"reg", "STATE0">>, <<"reg", "STATE1">>, <<"reg", "MSG">>>>>> >>,
    \* add previous/init hash values to current state
    << <<"=", "STATE0", <<"_mm_add_epi32", <<"reg", "STATE0">>, <<"reg", "ABEF_SAVE">>>>>>,
       <<"=", "STATE1", <<"_mm_add_epi32", <<"reg", "STATE1">>, <<"reg", "CDGH_SAVE">>>>>> >>,
    \* reorder hash correctly, save for next iteration or final result
    << <<"=", "STATE0", <<"_mm_shuffle_epi32", <<"reg", "STATE0">>, <<"imm", 27>>>>>>,
       <<"=", "STATE1", <<"_mm_shuffle_epi32", <<"reg", "STATE1">>, <<"imm", 177>>>>>>,
       <<"store", <<"adr", "state", 0>>, <<"_mm_blend_epi16", <<"reg", "STATE0">>, <<"reg", "STATE1">>, <<"imm", 240>>>>>>,
       <<"store", <<"adr", "state", 4>>, <<"_mm_alignr_epi8", <<"reg", "STATE1">>, <<"reg", "STATE0">>, <<"imm", 8>>>>>> >>
  >>

\* ----------------------------------------------------------------------
\* rec_sha256_fast (part_005, lines 25-250)

\* the vector locals, all holding j
rec_sha256_fast_locals(j) ==
  [SHUF_MASK |-> j, ABEF_INIT |-> j, CDGH_INIT |-> j, HPAD0_CACHE |-> j, HPAD1_CACHE |-> j,
   STATE0 |-> j, STATE1 |-> j, MSG |-> j, MSGTMP0 |-> j, MSGTMP1 |-> j, MSGTMP2 |-> j,
   MSGTMP3 |-> j, HASH0_SAVE |-> j, HASH1_SAVE |-> j]

\* rec_sha256_fast_entry with HPAD1_CACHE giving the message length as 512 bits
rec_sha256_fast_entry_Len512 ==
  <<
    \* shuffle mask for byte order required by SHA Extensions
    << <<"=", "SHUF_MASK", <<"_mm_set_epi64x", <<"imm64", \h0C0D, \h0E0F, \h0809, \h0A0B>>, <<"imm64", \h0405, \h0607, \h0001, \h0203>>>>>> >>,
    \* pre-arranged/rotated init values for SHA256 rounds, 8x A-H logic
    << <<"=", "ABEF_INIT", <<"_mm_set_epi64x", <<"imm64", \h6A09, \hE667, \hBB67, \hAE85>>, <<"imm64", \h510E, \h527F, \h9B05, \h688C>>>>>>,
       <<"=", "CDGH_INIT", <<"_mm_set_epi64x", <<"imm64", \h3C6E, \hF372, \hA54F, \hF53A>>, <<"imm64", \h1F83, \hD9AB, \h5BE0, \hCD19>>>>>> >>,
    \* pre-arranged/rotated values for 3rd/4th 16bytes of 1x block, SHA256 padding logic
    << <<"=", "HPAD0_CACHE", <<"_mm_set_epi64x", <<"imm64", \h0000, \h0000, \h0000, \h0000>>, <<"imm64", \h0000, \h0000, \h8000, \h0000>>>>>>,
       <<"=", "HPAD1_CACHE", <<"_mm_set_epi64x", <<"imm64", \h0000, \h0200, \h0000, \h0000>>, <<"imm64", \h0000, \h0000, \h0000, \h0000>>>>>> >>,
    \* variables to init/keep hash value through SHA256 rounds
    << <<"=", "HASH0_SAVE", <<"_mm_loadu_si128", <<"adr", "hash", 0>>>>>>,
       <<"=", "HASH1_SAVE", <<"_mm_loadu_si128", <<"adr", "hash", 16>>>>>> >>,
    \* shuffle 32bytes hash/data given required by SHA Extensions
    << <<"=", "HASH0_SAVE", <<"_mm_shuffle_epi8", <<"reg", "HASH0_SAVE">>, <<"reg", "SHUF_MASK">>>>>>,
       <<"=", "HASH1_SAVE", <<"_mm_shuffle_epi8", <<"reg", "HASH1_SAVE">>, <<"reg", "SHUF_MASK">>>>>> >>
  >>

\* the statements before the loop, block by block
rec_sha256_fast_entry ==
  <<
    \* shuffle mask for byte order required by SHA Extensions
    << <<"=", "SHUF_MASK", <<"_mm_set_epi64x", <<"imm64", \h0C0D, \h0E0F, \h0809, \h0A0B>>, <<"imm64", \h0405, \h0607, \h0001, \h0203>>>>>> >>,
    \* pre-arranged/rotated init values for SHA256 rounds, 8x A-H logic
    << <<"=", "ABEF_INIT", <<"_mm_set_epi64x", <<"imm64", \h6A09, \hE667, \hBB67, \hAE85>>, <<"imm64", \h510E, \h527F, \h9B05, \h688C>>>>>>,
       <<"=", "CDGH_INIT", <<"_mm_set_epi64x", <<"imm64", \h3C6E, \hF372, \hA54F, \hF53A>>, <<"imm64", \h1F83, \hD9AB, \h5BE0, \hCD19>>>>>> >>,
    \* pre-arranged/rotated values for 3rd/4th 16bytes of 1x block, SHA256 padding logic
    << <<"=", "HPAD0_CACHE", <<"_mm_set_epi64x", <<"imm64", \h0000, \h0000, \h0000, \h0000>>, <<"imm64", \h0000, \h0000, \h8000, \h0000>>>>>>,
       <<"=", "HPAD1_CACHE", <<"_mm_set_epi64x", <<"imm64", \h0000, \h0100, \h0000, \h0000>>, <<"imm64", \h0000, \h0000, \h0000, \h0000>>>>>> >>,
    \* variables to init/keep hash value through SHA256 rounds
    << <<"=", "HASH0_SAVE", <<"_mm_loadu_si128", <<"adr", "hash", 0>>>>>>,
       <<"=", "HASH1_SAVE", <<"_mm_loadu_si128", <<"adr", "hash", 16>>>>>> >>,
    \* shuffle 32bytes hash/data given required by SHA Extensions
    << <<"=", "HASH0_SAVE", <<"_mm_shuffle_epi8", <<"reg", "HASH0_SAVE">>, <<"reg", "SHUF_MASK">>>>>>,
       <<"=", "HASH1_SAVE", <<"_mm_shuffle_epi8", <<"reg", "HASH1_SAVE">>, <<"reg", "SHUF_MASK">>>>>> >>
  >>

\* one pass of the loop, block by block
rec_sha256_fast_loop ==
  <<
    \* init state values for SHA256 rounds
    << <<"=", "STATE0", <<"reg", "ABEF_INIT">>>>,
       <<"=", "STATE1", <<"reg", "CDGH_INIT">>>> >>,
    \* rounds 0-3
    << <<"=", "MSG", <<"reg", "HASH0_SAVE">>>>,
       <<"=", "MSGTMP0", <<"reg", "MSG">>>>,
       <<"=", "MSG", <<"_mm_add_epi32", <<"reg", "MSG">>, <<"_mm_load_si128", <<"adr", "K64", 0>>>>>>>>,
       <<"=", "STATE1", <<"_mm_sha256rnds2_epu32", <<"reg", "STATE1">>, <<"reg", "STATE0">>, <<"reg", "MSG">>>>>>,
       <<"=", "MSG", <<"_mm_shuffle_epi32", <<"reg", "MSG">>, <<"imm", 14>>>>>>,
       <<"=", "STATE0", <<"_mm_sha256rnds2_epu32", <<"reg", "STATE0">>, <<"reg", "STATE1">>, <<"reg", "MSG">>>>>> >>,
    \* rounds 4-7
    << <<"=", "MSG", <<"reg", "HASH1_SAVE">>>>,
       <<"=", "MSGTMP1", <<"reg", "MSG">>>>,
       <<"=", "MSG", <<"_mm_add_epi32", <<"reg", "MSG">>, <<"_mm_load_si128", <<"adr", "K64", 4>>>>>>>>,
       <<"=", "STATE1", <<"_mm_sha256rnds2_epu32", <<"reg", "STATE1">>, <<"reg", "STATE0">>, <<"reg", "MSG">>>>>>,
       <<"=", "MSG", <<"_mm_shuffle_epi32", <<"reg", "MSG">>, <<"imm", 14>>>>>>,
       <<"=", "STATE0", <<"_mm_sha256rnds2_epu32", <<"reg", "STATE0">>, <<"reg", "STATE1">>, <<"reg", "MSG">>>>>>,
       <<"=", "MSGTMP0", <<"_mm_sha256msg1_epu32", <<"reg", "MSGTMP0">>, <<"reg", "MSGTMP1">>>>>> >>,
    \* rounds 8-11
    << <<"=", "MSG", <<"reg", "HPAD0_CACHE">>>>,
       <<"=", "MSGTMP2", <<"reg", "MSG">>>>,
       <<"=", "MSG", <<"_mm_add_epi32", <<"reg", "MSG">>, <<"_mm_load_si128", <<"adr", "K64", 8>>>>>>>>,
       <<"=", "STATE1", <<"_mm_sha256rnds2_epu32", <<"reg", "STATE1">>, <<"reg", "STATE0">>, <<"reg", "MSG">>>>>>,
       <<"=", "MSG", <<"_mm_shuffle_epi32", <<"reg", "MSG">>, <<"imm", 14>>>>>>,
       <<"=", "STATE0", <<"_mm_sha256rnds2_epu32", <<"reg", "STATE0">>, <<"reg", "STATE1">>, <<"reg", "MSG">>>>>>,
       <<"=", "MSGTMP1", <<"_mm_sha256msg1_epu32", <<"reg", "MSGTMP1">>, <<"reg", "MSGTMP2">>>>>> >>,
    \* rounds 12-15
    << <<"=", "MSG", <<"reg", "HPAD1_CACHE">>>>,
       <<"=", "MSGTMP3", <<"reg", "MSG">>>>,
       <<"=", "MSG", <<"_mm_add_epi32", <<"reg", "MSG">>, <<"_mm_load_si128", <<"adr", "K64", 12>>>>>>>>,
       <<"=", "STATE1", <<"_mm_sha256rnds2_epu32", <<"reg", "STATE1">>, <<"reg", "STATE0">>, <<"reg", "MSG">>>>>>,
       <<"=", "MSGTMP0", <<"_mm_add_epi32", <<"reg", "MSGTMP0">>, <<"_mm_alignr_epi8", <<"reg", "MSGTMP3">>, <<"reg", "MSGTMP2">>, <<"imm", 4>>>>>>>>,
       <<"=", "MSGTMP0", <<"_mm_sha256msg2_epu32", <<"reg", "MSGTMP0">>, <<"reg", "MSGTMP3">>>>>>,
       <<"=", "MSG", <<"_mm_shuffle_epi32", <<"reg", "MSG">>, <<"imm", 14>>>>>>,
       <<"=", "STATE0", <<"_mm_sha256rnds2_epu32", <<"reg", "STATE0">>, <<"reg", "STATE1">>, <<"reg", "MSG">>>>>>,
       <<"=", "MSGTMP2", <<"_mm_sha256msg1_epu32", <<"reg", "MSGTMP2">>, <<"reg", "MSGTMP3">>>>>> >>,
    \* rounds 16-19
    << <<"=", "MSG", <<"reg", "MSGTMP0">>>>,
       <<"=", "MSG", <<"_mm_add_epi32", <<"reg", "MSG">>, <<"_mm_load_si128", <<"adr", "K64", 16>>>>>>>>,
       <<"=", "STATE1", <<"_mm_sha256rnds2_epu32", <<"reg", "STATE1">>, <<"reg", "STATE0">>, <<"reg", "MSG">>>>>>,
       <<"=", "MSGTMP1", <<"_mm_add_epi32", <<"reg", "MSGTMP1">>, <<"_mm_alignr_epi8", <<"reg", "MSGTMP0">>, <<"reg", "MSGTMP3">>, <<"imm", 4>>>>>>>>,
       <<"=", "MSGTMP1", <<"_mm_sha256msg2_epu32", <<"reg", "MSGTMP1">>, <<"reg", "MSGTMP0">>>>>>,
       <<"=", "MSG", <<"_mm_shuffle_epi32", <<"reg", "MSG">>, <<"imm", 14>>>>>>,
       <<"=", "STATE0", <<"_mm_sha256rnds2_epu32", <<"reg", "STATE0">>, <<"reg", "STATE1">>, <<"reg", "MSG">>>>>>,
       <<"=", "MSGTMP3", <<"_mm_sha256msg1_epu32", <<"reg", "MSGTMP3">>, <<"reg", "MSGTMP0">>>>>> >>,
    \* rounds 20-23
    << <<"=", "MSG", <<"reg", "MSGTMP1">>>>,
       <<"=", "MSG", <<"_mm_add_epi32", <<"reg", "MSG">>, <<"_mm_load_si128", <<"adr", "K64", 20>>>>>>>>,
       <<"=", "STATE1", <<"_mm_sha256rnds2_epu32", <<"reg", "STATE1">>, <<"reg", "STATE0">>, <<"reg", "MSG">>>>>>,
       <<"=", "MSGTMP2", <<"_mm_add_epi32", <<"reg", "MSGTMP2">>, <<"_mm_alignr_epi8", <<"reg", "MSGTMP1">>, <<"reg", "MSGTMP0">>, <<"imm", 4>>>>>>>>,
       <<"=", "MSGTMP2", <<"_mm_sha256msg2_epu32", <<"reg", "MSGTMP2">>, <<"reg", "MSGTMP1">>>>>>,
       <<"=", "MSG", <<"_mm_shuffle_epi32", <<"reg", "MSG">>, <<"imm", 14>>>>>>,
       <<"=", "STATE0", <<"_mm_sha256rnds2_epu32", <<"reg", "STATE0">>, <<"reg", "STATE1">>, <<"reg", "MSG">>>>>>,
       <<"=", "MSGTMP0", <<"_mm_sha256msg1_epu32", <<"reg", "MSGTMP0">>, <<"reg", "MSGTMP1">>>>>> >>,
    \* rounds 24-27
    << <<"=", "MSG", <<"reg", "MSGTMP2">>>>,
       <<"=", "MSG", <<"_mm_add_epi32", <<"reg", "MSG">>, <<"_mm_load_si128", <<"adr", "K64", 24>>>>>>>>,
       <<"=", "STATE1", <<"_mm_sha256rnds2_epu32", <<"reg", "STATE1">>, <<"reg", "STATE0">>, <<"reg", "MSG">>>>>>,
       <<"=", "MSGTMP3", <<"_mm_add_epi32", <<"reg", "MSGTMP3">>, <<"_mm_alignr_epi8", <<"reg", "MSGTMP2">>, <<"reg", "MSGTMP1">>, <<"imm", 4>>>>>>>>,
       <<"=", "MSGTMP3", <<"_mm_sha256msg2_epu32", <<"reg", "MSGTMP3">>, <<"reg", "MSGTMP2">>>>>>,
       <<"=", "MSG", <<"_mm_shuffle_epi32", <<"reg", "MSG">>, <<"imm", 14>>>>>>,
       <<"=", "STATE0", <<"_mm_sha256rnds2_epu32", <<"reg", "STATE0">>, <<"reg", "STATE1">>, <<"reg", "MSG">>>>>>,
       <<"=", "MSGTMP1", <<"_mm_sha256msg1_epu32", <<"reg", "MSGTMP1">>, <<"reg", "MSGTMP2">>>>>> >>,
    \* rounds 28-31
    << <<"=", "MSG", <<"reg", "MSGTMP3">>>>,
       <<"=", "MSG", <<"_mm_add_epi32", <<"reg", "MSG">>, <<"_mm_load_si128", <<"adr", "K64", 28>>>>>>>>,
       <<"=", "STATE1", <<"_mm_sha256rnds2_epu32", <<"reg", "STATE1">>, <<"reg", "STATE0">>, <<"reg", "MSG">>>>>>,
       <<"=", "MSGTMP0", <<"_mm_add_epi32", <<"reg", "MSGTMP0">>, <<"_mm_alignr_epi8", <<"reg", "MSGTMP3">>, <<"reg", "MSGTMP2">>, <<"imm", 4>>>>>>>>,
       <<"=", "MSGTMP0", <<"_mm_sha256msg2_epu32", <<"reg", "MSGTMP0">>, <<"reg", "MSGTMP3">>>>>>,
       <<"=", "MSG", <<"_mm_shuffle_epi32", <<"reg", "MSG">>, <<"imm", 14>>>>>>,
       <<"=", "STATE0", <<"_mm_sha256rnds2_epu32", <<"reg", "STATE0">>, <<"reg", "STATE1">>, <<"reg", "MSG">>>>>>,
       <<"=", "MSGTMP2", <<"_mm_sha256msg1_epu32", <<"reg", "MSGTMP2">>, <<"reg", "MSGTMP3">>>>>> >>,
    \* rounds 32-35
    << <<"=", "MSG", <<"reg", "MSGTMP0">>>>,
       <<"=", "MSG", <<"_mm_add_epi32", <<"reg", "MSG">>, <<"_mm_load_si128", <<"adr", "K64", 32>>>>>>>>,
       <<"=", "STATE1", <<"_mm_sha256rnds2_epu32", <<"reg", "STATE1">>, <<"reg", "STATE0">>, <<"reg", "MSG">>>>>>,
       <<"=", "MSGTMP1", <<"_mm_add_epi32", <<"reg", "MSGTMP1">>, <<"_mm_alignr_epi8", <<"reg", "MSGTMP0">>, <<"reg", "MSGTMP3">>, <<"imm", 4>>>>>>>>,
       <<"=", "MSGTMP1", <<"_mm_sha256msg2_epu32", <<"reg", "MSGTMP1">>, <<"reg", "MSGTMP0">>>>>>,
       <<"=", "MSG", <<"_mm_shuffle_epi32", <<"reg", "MSG">>, <<"imm", 14>>>>>>,
       <<"=", "STATE0", <<"_mm_sha256rnds2_epu32", <<"reg", "STATE0">>, <<"reg", "STATE1">>, <<"reg", "MSG">>>>>>,
       <<"=", "MSGTMP3", <<"_mm_sha256msg1_epu32", <<"reg", "MSGTMP3">>, <<"reg", "MSGTMP0">>>>>> >>,
    \* rounds 36-39
    << <<"=", "MSG", <<"reg", "MSGTMP1">>>>,
       <<"=", "MSG", <<"_mm_add_epi32", <<"reg", "MSG">>, <<"_mm_load_si128", <<"adr", "K64", 36>>>>>>>>,
       <<"=", "STATE1", <<"_mm_sha256rnds2_epu32", <<"reg", "STATE1">>, <<"reg", "STATE0">>, <<"reg", "MSG">>>>>>,
       <<"=", "MSGTMP2", <<"_mm_add_epi32", <<"reg", "MSGTMP2">>, <<"_mm_alignr_epi8", <<"reg", "MSGTMP1">>, <<"reg", "MSGTMP0">>, <<"imm", 4>>>>>>>>,
       <<"=", "MSGTMP2", <<"_mm_sha256msg2_epu32", <<"reg", "MSGTMP2">>, <<"reg", "MSGTMP1">>>>>>,
       <<"=", "MSG", <<"_mm_shuffle_epi32", <<"reg", "MSG">>, <<"imm", 14>>>>>>,
       <<"=", "STATE0", <<"_mm_sha256rnds2_epu32", <<"reg", "STATE0">>, <<"reg", "STATE1">>, <<"reg", "MSG">>>>>>,
       <<"=", "MSGTMP0", <<"_mm_sha256msg1_epu32", <<"reg", "MSGTMP0">>, <<"reg", "MSGTMP1">>>>>> >>,
    \* rounds 40-43
    << <<"=", "MSG", <<"reg", "MSGTMP2">>>>,
       <<"=", "MSG", <<"_mm_add_epi32", <<"reg", "MSG">>, <<"_mm_load_si128", <<"adr", "K64", 40>>>>>>>>,
       <<"=", "STATE1", <<"_mm_sha256rnds2_epu32", <<"reg", "STATE1">>, <<"reg", "STATE0">>, <<"reg", "MSG">>>>>>,
       <<"=", "MSGTMP3", <<"_mm_add_epi32", <<"reg", "MSGTMP3">>, <<"_mm_alignr_epi8", <<"reg", "MSGTMP2">>, <<"reg", "MSGTMP1">>, <<"imm", 4>>>>>>>>,
       <<"=", "MSGTMP3", <<"_mm_sha256msg2_epu32", <<"reg", "MSGTMP3">>, <<"reg", "MSGTMP2">>>>>>,
       <<"=", "MSG", <<"_mm_shuffle_epi32", <<"reg", "MSG">>, <<"imm", 14>>>>>>,
       <<"=", "STATE0", <<"_mm_sha256rnds2_epu32", <<"reg", "STATE0">>, <<"reg", "STATE1">>, <<"reg", "MSG">>>>>>,
       <<"=", "MSGTMP1", <<"_mm_sha256msg1_epu32", <<"reg", "MSGTMP1">>, <<"reg", "MSGTMP2">>>>>> >>,
    \* rounds 44-47
    << <<"=", "MSG", <<"reg", "MSGTMP3">>>>,
       <<"=", "MSG", <<"_mm_add_epi32", <<"reg", "MSG">>, <<"_mm_load_si128", <<"adr", "K64", 44>>>>>>>>,
       <<"=", "STATE1", <<"_mm_sha256rnds2_epu32", <<"reg", "STATE1">>, <<"reg", "STATE0">>, <<"reg", "MSG">>>>>>,
       <<"=", "MSGTMP0", <<"_mm_add_epi32", <<"reg", "MSGTMP0">>, <<"_mm_alignr_epi8", <<"reg", "MSGTMP3">>, <<"reg", "MSGTMP2">>, <<"imm", 4>>>>>>>>,
       <<"=", "MSGTMP0", <<"_mm_sha256msg2_epu32", <<"reg", "MSGTMP0">>, <<"reg", "MSGTMP3">>>>>>,
       <<"=", "MSG", <<"_mm_shuffle_epi32", <<"reg", "MSG">>, <<"imm", 14>>>>>>,
       <<"=", "STATE0", <<"_mm_sha256rnds2_epu32", <<"reg", "STATE0">>, <<"reg", "STATE1">>, <<"reg", "MSG">>>>>>,
       <<"=", "MSGTMP2", <<"_mm_sha256msg1_epu32", <<"reg", "MSGTMP2">>, <<"reg", "MSGTMP3">>>>>> >>,
    \* rounds 48-51
    << <<"=", "MSG", <<"reg", "MSGTMP0">>>>,
       <<"=", "MSG", <<"_mm_add_epi32", <<"reg", "MSG">>, <<"_mm_load_si128", <<"adr", "K64", 48>>>>>>>>,
       <<"=", "STATE1", <<"_mm_sha256rnds2_epu32", <<"reg", "STATE1">>, <<"reg", "STATE0">>, <<"reg", "MSG">>>>>>,
       <<"=", "MSGTMP1", <<"_mm_add_epi32", <<"reg", "MSGTMP1">>, <<"_mm_alignr_epi8", <<"reg", "MSGTMP0">>, <<"reg", "MSGTMP3">>, <<"imm", 4>>>>>>>>,
       <<"=", "MSGTMP1", <<"_mm_sha256msg2_epu32", <<"reg", "MSGTMP1">>, <<"reg", "MSGTMP0">>>>>>,
       <<"=", "MSG", <<"_mm_shuffle_epi32", <<"reg", "MSG">>, <<"imm", 14>>>>>>,
       <<"=", "STATE0", <<"_mm_sha256rnds2_epu32", <<"reg", "STATE0">>, <<"reg", "STATE1">>, <<"reg", "MSG">>>>>>,
       <<"=", "MSGTMP3", <<"_mm_sha256msg1_epu32", <<"reg", "MSGTMP3">>, <<"reg", "MSGTMP0">>>>>> >>,
    \* rounds 52-55
    << <<"=", "MSG", <<"reg", "MSGTMP1">>>>,
       <<"=", "MSG", <<"_mm_add_epi32", <<"reg", "MSG">>, <<"_mm_load_si128", <<"adr", "K64", 52>>>>>>>>,
       <<"=", "STATE1", <<"_mm_sha256rnds2_epu32", <<"reg", "STATE1">>, <<"reg", "STATE0">>, <<"reg", "MSG">>>>>>,
       <<"=", "MSGTMP2", <<"_mm_add_epi32", <<"reg", "MSGTMP2">>, <<"_mm_alignr_epi8", <<"reg", "MSGTMP1">>, <<"reg", "MSGTMP0">>, <<"imm", 4>>>>>>>>,
       <<"=", "MSGTMP2", <<"_mm_sha256msg2_epu32", <<"reg", "MSGTMP2">>, <<"reg", "MSGTMP1">>>>>>,
       <<"=", "MSG", <<"_mm_shuffle_epi32", <<"reg", "MSG">>, <<"imm", 14>>>>>>,
       <<"=", "STATE0", <<"_mm_sha256rnds2_epu32", <<"reg", "STATE0">>, <<"reg", "STATE1">>, <<"reg", "MSG">>>>>> >>,
    \* rounds 56-59
    << <<"=", "MSG", <<"reg", "MSGTMP2">>>>,
       <<"=", "MSG", <<"_mm_add_epi32", <<"reg", "MSG">>, <<"_mm_load_si128", <<"adr", "K64", 56>>>>>>>>,
       <<"=", "STATE1", <<"_mm_sha256rnds2_epu32", <<"reg", "STATE1">>, <<"reg", "STATE0">>, <<"reg", "MSG">>>>>>,
       <<"=", "MSGTMP3", <<"_mm_add_epi32", <<"reg", "MSGTMP3">>, <<"_mm_alignr_epi8", <<"reg", "MSGTMP2">>, <<"reg", "MSGTMP1">>, <<"imm", 4>>>>>>>>,
       <<"=", "MSGTMP3", <<"_mm_sha256msg2_epu32", <<"reg", "MSGTMP3">>, <<"reg", "MSGTMP2">>>>>>,
       <<"=", "MSG", <<"_mm_shuffle_epi32", <<"reg", "MSG">>, <<"imm", 14>>>>>>,
       <<"=", "STATE0", <<"_mm_sha256rnds2_epu32", <<"reg", "STATE0">>, <<"reg", "STATE1">>, <<"reg", "MSG">>>>>> >>,
    \* rounds 60-63
    << <<"=", "MSG", <<"reg", "MSGTMP3">>>>,
       <<"=", "MSG", <<"_mm_add_epi32", <<"reg", "MSG">>, <<"_mm_load_si128", <<"adr", "K64", 60>>>>>>>>,
       <<"=", "STATE1", <<"_mm_sha256rnds2_epu32", <<"reg", "STATE1">>, <<"reg", "STATE0">>, <<"reg", "MSG">>>>>>,
       <<"=", "MSG", <<"_mm_shuffle_epi32", <<"reg", "MSG">>, <<"imm", 14>>>>>>,
       <<"=", "STATE0", <<"_mm_sha256rnds2_epu32", <<"reg", "STATE0">>, <<"reg", "STATE1">>, <<"reg", "MSG">>>>>> >>,
    \* add previous/init hash values to current state
    << <<"=", "STATE0", <<"_mm_add_epi32", <<"reg", "STATE0">>, <<"reg", "ABEF_INIT">>>>>>,
       <<"=", "STATE1", <<"_mm_add_epi32", <<"reg", "STATE1">>, <<"reg", "CDGH_INIT">>>>>> >>,
    \* reorder hash correctly, save for next iteration or final result
    << <<"=", "STATE0", <<"_mm_shuffle_epi32", <<"reg", "STATE0">>, <<"imm", 27>>>>>>,
       <<"=", "STATE1", <<"_mm_shuffle_epi32", <<"reg", "STATE1">>, <<"imm", 177>>>>>>,
       <<"=", "HASH0_SAVE", <<"_mm_blend_epi16", <<"reg", "STATE0">>, <<"reg", "STATE1">>, <<"imm", 240>>>>>>,
       <<"=", "HASH1_SAVE", <<"_mm_alignr_epi8", <<"reg", "STATE1">>, <<"reg", "STATE0">>, <<"imm", 8>>>>>> >>
  >>

\* the statements after the loop without the shuffle back to the caller's byte order
rec_sha256_fast_exit_NoShuffle ==
  <<
    << <<"store", <<"adr", "hash", 0>>, <<"reg", "HASH0_SAVE">>>>,
       <<"store", <<"adr", "hash", 16>>, <<"reg", "HASH1_SAVE">>>> >>
  >>

\* the statements after the loop, block by block
rec_sha256_fast_exit ==
  <<
    \* shuffle SHA Extensions hash value back to normal
    << <<"=", "HASH0_SAVE", <<"_mm_shuffle_epi8", <<"reg", "HASH0_SAVE">>, <<"reg", "SHUF_MASK">>>>>>,
       <<"=", "HASH1_SAVE", <<"_mm_shuffle_epi8", <<"reg", "HASH1_SAVE">>, <<"reg", "SHUF_MASK">>>>>> >>,
    \* copy/return final hash value into *hash
    << <<"store", <<"adr", "hash", 0>>, <<"reg", "HASH0_SAVE">>>>,
       <<"store", <<"adr", "hash", 16>>, <<"reg", "HASH1_SAVE">>>> >>
  >>

\* ----------------------------------------------------------------------
\* rec_sha256_fast_x1 (OPTIMIZE.md, lines 141-296)

\* SHA256ROUND_X1 with the operands of _mm_alignr_epi8 the other way round
X64_SHA256ROUND_X1_Swapped(msg_p1, msgtmp0_p1, msgtmp1_p1, msgtmp2_p1, msgtmp3_p1, state0_p1, state1_p1, kvalue) ==
  << <<"=", msg_p1, <<"reg", msgtmp0_p1>>>>,
     <<"=", msg_p1, <<"_mm_add_epi32", <<"reg", msg_p1>>, <<"_mm_load_si128", kvalue>>>>>>,
     <<"=", state1_p1, <<"_mm_sha256rnds2_epu32", <<"reg", state1_p1>>, <<"reg", state0_p1>>, <<"reg", msg_p1>>>>>>,
     <<"=", msgtmp1_p1, <<"_mm_add_epi32", <<"reg", msgtmp1_p1>>, <<"_mm_alignr_epi8", <<"reg", msgtmp3_p1>>, <<"reg", msgtmp0_p1>>, <<"imm", 4>>>>>>>>,
     <<"=", msgtmp1_p1, <<"_mm_sha256msg2_epu32", <<"reg", msgtmp1_p1>>, <<"reg", msgtmp0_p1>>>>>>,
     <<"=", msg_p1, <<"_mm_shuffle_epi32", <<"reg", msg_p1>>, <<"imm", 14>>>>>>,
     <<"=", state0_p1, <<"_mm_sha256rnds2_epu32", <<"reg", state0_p1>>, <<"reg", state1_p1>>, <<"reg", msg_p1>>>>>>,
     <<"=", msgtmp3_p1, <<"_mm_sha256msg1_epu32", <<"reg", msgtmp3_p1>>, <<"reg", msgtmp0_p1>>>>>> >>

\* #define SHA256ROUND_X1
X64_SHA256ROUND_X1(msg_p1, msgtmp0_p1, msgtmp1_p1, msgtmp2_p1, msgtmp3_p1, state0_p1, state1_p1, kvalue) ==
  << <<"=", msg_p1, <<"reg", msgtmp0_p1>>>>,
     <<"=", msg_p1, <<"_mm_add_epi32", <<"reg", msg_p1>>, <<"_mm_load_si128", kvalue>>>>>>,
     <<"=", state1_p1, <<"_mm_sha256rnds2_epu32", <<"reg", state1_p1>>, <<"reg", state0_p1>>, <<"reg", msg_p1>>>>>>,
     <<"=", msgtmp1_p1, <<"_mm_add_epi32", <<"reg", msgtmp1_p1>>, <<"_mm_alignr_epi8", <<"reg", msgtmp0_p1>>, <<"reg", msgtmp3_p1>>, <<"imm", 4>>>>>>>>,
     <<"=", msgtmp1_p1, <<"_mm_sha256msg2_epu32", <<"reg", msgtmp1_p1>>, <<"reg", msgtmp0_p1>>>>>>,
     <<"=", msg_p1, <<"_mm_shuffle_epi32", <<"reg", msg_p1>>, <<"imm", 14>>>>>>,
     <<"=", state0_p1, <<"_mm_sha256rnds2_epu32", <<"reg", state0_p1>>, <<"reg", state1_p1>>, <<"reg", msg_p1>>>>>>,
     <<"=", msgtmp3_p1, <<"_mm_sha256msg1_epu32", <<"reg", msgtmp3_p1>>, <<"reg", msgtmp0_p1>>>>>> >>

\* the vector locals, all holding j
rec_sha256_fast_x1_locals(j) ==
  [SHUF_MASK |-> j, ABEF_INIT |-> j, CDGH_INIT |-> j, HPAD0_CACHE |-> j, HPAD1_CACHE |-> j,
   STATE0_P1 |-> j, STATE1_P1 |-> j, MSG_P1 |-> j, MSGTMP0_P1 |-> j, MSGTMP1_P1 |-> j,
   MSGTMP2_P1 |-> j, MSGTMP3_P1 |-> j, HASH0_SAVE_P1 |-> j, HASH1_SAVE_P1 |-> j]

\* the statements before the loop, block by block
rec_sha256_fast_x1_entry ==
  <<
    \* shuffle mask for byte order required by SHA Extensions
    << <<"=", "SHUF_MASK", <<"_mm_set_epi64x", <<"imm64", \h0C0D, \h0E0F, \h0809, \h0A0B>>, <<"imm64", \h0405, \h0607, \h0001, \h0203>>>>>> >>,
    \* pre-arranged/rotated init values for SHA256 rounds, 8x A-H logic
    << <<"=", "ABEF_INIT", <<"_mm_set_epi64x", <<"imm64", \h6A09, \hE667, \hBB67, \hAE85>>, <<"imm64", \h510E, \h527F, \h9B05, \h688C>>>>>>,
       <<"=", "CDGH_INIT", <<"_mm_set_epi64x", <<"imm64", \h3C6E, \hF372, \hA54F, \hF53A>>, <<"imm64", \h1F83, \hD9AB, \h5BE0, \hCD19>>>>>> >>,
    \* pre-arranged/rotated values for 3rd/4th 16bytes of 1x block, SHA256 padding logic
    << <<"=", "HPAD0_CACHE", <<"_mm_set_epi64x", <<"imm64", \h0000, \h0000, \h0000, \h0000>>, <<"imm64", \h0000, \h0000, \h8000, \h0000>>>>>>,
       <<"=", "HPAD1_CACHE", <<"_mm_set_epi64x", <<"imm64", \h0000, \h0100, \h0000, \h0000>>, <<"imm64", \h0000, \h0000, \h0000, \h0000>>>>>> >>,
    \* variables to init/keep hash value through SHA256 rounds
    << <<"=", "HASH0_SAVE_P1", <<"_mm_loadu_si128", <<"adr", "hash", 0>>>>>>,
       <<"=", "HASH1_SAVE_P1", <<"_mm_loadu_si128", <<"adr", "hash", 16>>>>>> >>,
    \* shuffle 32bytes hash/data given required by SHA Extensions
    << <<"=", "HASH0_SAVE_P1", <<"_mm_shuffle_epi8", <<"reg", "HASH0_SAVE_P1">>, <<"reg", "SHUF_MASK">>>>>>,
       <<"=", "HASH1_SAVE_P1", <<"_mm_shuffle_epi8", <<"reg", "HASH1_SAVE_P1">>, <<"reg", "SHUF_MASK">>>>>> >>
  >>

\* one pass of the loop, block by block
rec_sha256_fast_x1_loop ==
  <<
    \* init state values for SHA256 rounds
    << <<"=", "STATE0_P1", <<"reg", "ABEF_INIT">>>>,
       <<"=", "STATE1_P1", <<"reg", "CDGH_INIT">>>> >>,
    \* rounds 0-3
    << <<"=", "MSG_P1", <<"reg", "HASH0_SAVE_P1">>>>,
       <<"=", "MSGTMP0_P1", <<"reg", "MSG_P1">>>>,
       <<"=", "MSG_P1", <<"_mm_add_epi32", <<"reg", "MSG_P1">>, <<"_mm_load_si128", <<"adr", "K64", 0>>>>>>>>,
       <<"=", "STATE1_P1", <<"_mm_sha256rnds2_epu32", <<"reg", "STATE1_P1">>, <<"reg", "STATE0_P1">>, <<"reg", "MSG_P1">>>>>>,
       <<"=", "MSG_P1", <<"_mm_shuffle_epi32", <<"reg", "MSG_P1">>, <<"imm", 14>>>>>>,
       <<"=", "STATE0_P1", <<"_mm_sha256rnds2_epu32", <<"reg", "STATE0_P1">>, <<"reg", "STATE1_P1">>, <<"reg", "MSG_P1">>>>>> >>,
    \* rounds 4-7
    << <<"=", "MSG_P1", <<"reg", "HASH1_SAVE_P1">>>>,
       <<"=", "MSGTMP1_P1", <<"reg", "MSG_P1">>>>,
       <<"=", "MSG_P1", <<"_mm_add_epi32", <<"reg", "MSG_P1">>, <<"_mm_load_si128", <<"adr", "K64", 4>>>>>>>>,
       <<"=", "STATE1_P1", <<"_mm_sha256rnds2_epu32", <<"reg", "STATE1_P1">>, <<"reg", "STATE0_P1">>, <<"reg", "MSG_P1">>>>>>,
       <<"=", "MSG_P1", <<"_mm_shuffle_epi32", <<"reg", "MSG_P1">>, <<"imm", 14>>>>>>,
       <<"=", "STATE0_P1", <<"_mm_sha256rnds2_epu32", <<"reg", "STATE0_P1">>, <<"reg", "STATE1_P1">>, <<"reg", "MSG_P1">>>>>>,
       <<"=", "MSGTMP0_P1", <<"_mm_sha256msg1_epu32", <<"reg", "MSGTMP0_P1">>, <<"reg", "MSGTMP1_P1">>>>>> >>,
    \* rounds 8-11
    << <<"=", "MSG_P1", <<"reg", "HPAD0_CACHE">>>>,
       <<"=", "MSGTMP2_P1", <<"reg", "MSG_P1">>>>,
       <<"=", "MSG_P1", <<"_mm_add_epi32", <<"reg", "MSG_P1">>, <<"_mm_load_si128", <<"adr", "K64", 8>>>>>>>>,
       <<"=", "STATE1_P1", <<"_mm_sha256rnds2_epu32", <<"reg", "STATE1_P1">>, <<"reg", "STATE0_P1">>, <<"reg", "MSG_P1">>>>>>,
       <<"=", "MSG_P1", <<"_mm_shuffle_epi32", <<"reg", "MSG_P1">>, <<"imm", 14>>>>>>,
       <<"=", "STATE0_P1", <<"_mm_sha256rnds2_epu32", <<"reg", "STATE0_P1">>, <<"reg", "STATE1_P1">>, <<"reg", "MSG_P1">>>>>>,
       <<"=", "MSGTMP1_P1", <<"_mm_sha256msg1_epu32", <<"reg", "MSGTMP1_P1">>, <<"reg", "MSGTMP2_P1">>>>>> >>,
    \* rounds 12-15
    << <<"=", "MSG_P1", <<"reg", "HPAD1_CACHE">>>>,
       <<"=", "MSGTMP3_P1", <<"reg", "MSG_P1">>>>,
       <<"=", "MSG_P1", <<"_mm_add_epi32", <<"reg", "MSG_P1">>, <<"_mm_load_si128", <<"adr", "K64", 12>>>>>>>>,
       <<"=", "STATE1_P1", <<"_mm_sha256rnds2_epu32", <<"reg", "STATE1_P1">>, <<"reg", "STATE0_P1">>, <<"reg", "MSG_P1">>>>>>,
       <<"=", "MSGTMP0_P1", <<"_mm_add_epi32", <<"reg", "MSGTMP0_P1">>, <<"_mm_alignr_epi8", <<"reg", "MSGTMP3_P1">>, <<"reg", "MSGTMP2_P1">>, <<"imm", 4>>>>>>>>,
       <<"=", "MSGTMP0_P1", <<"_mm_sha256msg2_epu32", <<"reg", "MSGTMP0_P1">>, <<"reg", "MSGTMP3_P1">>>>>>,
       <<"=", "MSG_P1", <<"_mm_shuffle_epi32", <<"reg", "MSG_P1">>, <<"imm", 14>>>>>>,
       <<"=", "STATE0_P1", <<"_mm_sha256rnds2_epu32", <<"reg", "STATE0_P1">>, <<"reg", "STATE1_P1">>, <<"reg", "MSG_P1">>>>>>,
       <<"=", "MSGTMP2_P1", <<"_mm_sha256msg1_epu32", <<"reg", "MSGTMP2_P1">>, <<"reg", "MSGTMP3_P1">>>>>> >>,
    \* rounds 16-19, 20-23, 24-27, 28-31
    X64_SHA256ROUND_X1("MSG_P1", "MSGTMP0_P1", "MSGTMP1_P1", "MSGTMP2_P1", "MSGTMP3_P1", "STATE0_P1", "STATE1_P1",
                       <<"adr", "K64", 16>>),
    X64_SHA256ROUND_X1("MSG_P1", "MSGTMP1_P1", "MSGTMP2_P1", "MSGTMP3_P1", "MSGTMP0_P1", "STATE0_P1", "STATE1_P1",
                       <<"adr", "K64", 20>>),
    X64_SHA256ROUND_X1("MSG_P1", "MSGTMP2_P1", "MSGTMP3_P1", "MSGTMP0_P1", "MSGTMP1_P1", "STATE0_P1", "STATE1_P1",
                       <<"adr", "K64", 24>>),
    X64_SHA256ROUND_X1("MSG_P1", "MSGTMP3_P1", "MSGTMP0_P1", "MSGTMP1_P1", "MSGTMP2_P1", "STATE0_P1", "STATE1_P1",
                       <<"adr", "K64", 28>>),
    \* rounds 32-35, 36-39, 40-43, 44-47
    X64_SHA256ROUND_X1("MSG_P1", "MSGTMP0_P1", "MSGTMP1_P1", "MSGTMP2_P1", "MSGTMP3_P1", "STATE0_P1", "STATE1_P1",
                       <<"adr", "K64", 32>>),
    X64_SHA256ROUND_X1("MSG_P1", "MSGTMP1_P1", "MSGTMP2_P1", "MSGTMP3_P1", "MSGTMP0_P1", "STATE0_P1", "STATE1_P1",
                       <<"adr", "K64", 36>>),
    X64_SHA256ROUND_X1("MSG_P1", "MSGTMP2_P1", "MSGTMP3_P1", "MSGTMP0_P1", "MSGTMP1_P1", "STATE0_P1", "STATE1_P1",
                       <<"adr", "K64", 40>>),
    X64_SHA256ROUND_X1("MSG_P1", "MSGTMP3_P1", "MSGTMP0_P1", "MSGTMP1_P1", "MSGTMP2_P1", "STATE0_P1", "STATE1_P1",
                       <<"adr", "K64", 44>>),
    \* rounds 48-51
    X64_SHA256ROUND_X1("MSG_P1", "MSGTMP0_P1", "MSGTMP1_P1", "MSGTMP2_P1", "MSGTMP3_P1", "STATE0_P1", "STATE1_P1",
                       <<"adr", "K64", 48>>),
    \* rounds 52-55
    << <<"=", "MSG_P1", <<"reg", "MSGTMP1_P1">>>>,
       <<"=", "MSG_P1", <<"_mm_add_epi32", <<"reg", "MSG_P1">>, <<"_mm_load_si128", <<"adr", "K64", 52>>>>>>>>,
       <<"=", "STATE1_P1", <<"_mm_sha256rnds2_epu32", <<"reg", "STATE1_P1">>, <<"reg", "STATE0_P1">>, <<"reg", "MSG_P1">>>>>>,
       <<"=", "MSGTMP2_P1", <<"_mm_add_epi32", <<"reg", "MSGTMP2_P1">>, <<"_mm_alignr_epi8", <<"reg", "MSGTMP1_P1">>, <<"reg", "MSGTMP0_P1">>, <<"imm", 4>>>>>>>>,
       <<"=", "MSGTMP2_P1", <<"_mm_sha256msg2_epu32", <<"reg", "MSGTMP2_P1">>, <<"reg", "MSGTMP1_P1">>>>>>,
       <<"=", "MSG_P1", <<"_mm_shuffle_epi32", <<"reg", "MSG_P1">>, <<"imm", 14>>>>>>,
       <<"=", "STATE0_P1", <<"_mm_sha256rnds2_epu32", <<"reg", "STATE0_P1">>, <<"reg", "STATE1_P1">>, <<"reg", "MSG_P1">>>>>> >>,
    \* rounds 56-59
    << <<"=", "MSG_P1", <<"reg", "MSGTMP2_P1">>>>,
       <<"=", "MSG_P1", <<"_mm_add_epi32", <<"reg", "MSG_P1">>, <<"_mm_load_si128", <<"adr", "K64", 56>>>>>>>>,
       <<"=", "STATE1_P1", <<"_mm_sha256rnds2_epu32", <<"reg", "STATE1_P1">>, <<"reg", "STATE0_P1">>, <<"reg", "MSG_P1">>>>>>,
       <<"=", "MSGTMP3_P1", <<"_mm_add_epi32", <<"reg", "MSGTMP3_P1">>, <<"_mm_alignr_epi8", <<"reg", "MSGTMP2_P1">>, <<"reg", "MSGTMP1_P1">>, <<"imm", 4>>>>>>>>,
       <<"=", "MSGTMP3_P1", <<"_mm_sha256msg2_epu32", <<"reg", "MSGTMP3_P1">>, <<"reg", "MSGTMP2_P1">>>>>>,
       <<"=", "MSG_P1", <<"_mm_shuffle_epi32", <<"reg", "MSG_P1">>, <<"imm", 14>>>>>>,
       <<"=", "STATE0_P1", <<"_mm_sha256rnds2_epu32", <<"reg", "STATE0_P1">>, <<"reg", "STATE1_P1">>, <<"reg", "MSG_P1">>>>>> >>,
    \* rounds 60-63
    << <<"=", "MSG_P1", <<"reg", "MSGTMP3_P1">>>>,
       <<"=", "MSG_P1", <<"_mm_add_epi32", <<"reg", "MSG_P1">>, <<"_mm_load_si128", <<"adr", "K64", 60>>>>>>>>,
       <<"=", "STATE1_P1", <<"_mm_sha256rnds2_epu32", <<"reg", "STATE1_P1">>, <<"reg", "STATE0_P1">>, <<"reg", "MSG_P1">>>>>>,
       <<"=", "MSG_P1", <<"_mm_shuffle_epi32", <<"reg", "MSG_P1">>, <<"imm", 14>>>>>>,
       <<"=", "STATE0_P1", <<"_mm_sha256rnds2_epu32", <<"reg", "STATE0_P1">>, <<"reg", "STATE1_P1">>, <<"reg", "MSG_P1">>>>>> >>,
    \* add previous/init hash values to current state
    << <<"=", "STATE0_P1", <<"_mm_add_epi32", <<"reg", "STATE0_P1">>, <<"reg", "ABEF_INIT">>>>>>,
       <<"=", "STATE1_P1", <<"_mm_add_epi32", <<"reg", "STATE1_P1">>, <<"reg", "CDGH_INIT">>>>>> >>,
    \* reorder hash correctly, save for next iteration or final result
    << <<"=", "STATE0_P1", <<"_mm_shuffle_epi32", <<"reg", "STATE0_P1">>, <<"imm", 27>>>>>>,
       <<"=", "STATE1_P1", <<"_mm_shuffle_epi32", <<"reg", "STATE1_P1">>, <<"imm", 177>>>>>>,
       <<"=", "HASH0_SAVE_P1", <<"_mm_blend_epi16", <<"reg", "STATE0_P1">>, <<"reg", "STATE1_P1">>, <<"imm", 240>>>>>>,
       <<"=", "HASH1_SAVE_P1", <<"_mm_alignr_epi8", <<"reg", "STATE1_P1">>, <<"reg", "STATE0_P1">>, <<"imm", 8>>>>>> >>
  >>

\* the statements after the loop, block by block
rec_sha256_fast_x1_exit ==
  <<
    \* shuffle SHA Extensions hash value back to normal
    << <<"=", "HASH0_SAVE_P1", <<"_mm_shuffle_epi8", <<"reg", "HASH0_SAVE_P1">>, <<"reg", "SHUF_MASK">>>>>>,
       <<"=", "HASH1_SAVE_P1", <<"_mm_shuffle_epi8", <<"reg", "HASH1_SAVE_P1">>, <<"reg", "SHUF_MASK">>>>>> >>,
    \* copy/return final hash value into *hash
    << <<"store", <<"adr", "hash", 0>>, <<"reg", "HASH0_SAVE_P1">>>>,
       <<"store", <<"adr", "hash", 16>>, <<"reg", "HASH1_SAVE_P1">>>> >>
  >>

\* ----------------------------------------------------------------------
\* rec_sha256_fast_x2 (OPTIMIZE.md, lines 298-536)

\* SHA256ROUND_X2 with the first two rounds of lane 2 fed the message words of lane 1
X64_SHA256ROUND_X2_CrossLane(msg_p1, msgtmp0_p1, msgtmp1_p1, msgtmp2_p1, msgtmp3_p1, state0_p1, state1_p1, msg_p2, msgtmp0_p2, msgtmp1_p2, msgtmp2_p2, msgtmp3_p2, state0_p2, state1_p2, kvalue) ==
  << <<"=", msg_p1, <<"reg", msgtmp0_p1>>>>,
     <<"=", msg_p2, <<"reg", msgtmp0_p2>>>>,
     <<"=", msg_p1, <<"_mm_add_epi32", <<"reg", msg_p1>>, <<"_mm_load_si128", kvalue>>>>>>,
     <<"=", msg_p2, <<"_mm_add_epi32", <<"reg", msg_p2>>, <<"_mm_load_si128", kvalue>>>>>>,
     <<"=", state1_p1, <<"_mm_sha256rnds2_epu32", <<"reg", state1_p1>>, <<"reg", state0_p1>>, <<"reg", msg_p1>>>>>>,
     <<"=", state1_p2, <<"_mm_sha256rnds2_epu32", <<"reg", state1_p2>>, <<"reg", state0_p2>>, <<"reg", msg_p1>>>>>>,
     <<"=", msgtmp1_p1, <<"_mm_add_epi32", <<"reg", msgtmp1_p1>>, <<"_mm_alignr_epi8", <<"reg", msgtmp0_p1>>, <<"reg", msgtmp3_p1>>, <<"imm", 4>>>>>>>>,
     <<"=", msgtmp1_p2, <<"_mm_add_epi32", <<"reg", msgtmp1_p2>>, <<"_mm_alignr_epi8", <<"reg", msgtmp0_p2>>, <<"reg", msgtmp3_p2>>, <<"imm", 4>>>>>>>>,
     <<"=", msgtmp1_p1, <<"_mm_sha256msg2_epu32", <<"reg", msgtmp1_p1>>, <<"reg", msgtmp0_p1>>>>>>,
     <<"=", msgtmp1_p2, <<"_mm_sha256msg2_epu32", <<"reg", msgtmp1_p2>>, <<"reg", msgtmp0_p2>>>>>>,
     <<"=", msg_p1, <<"_mm_shuffle_epi32", <<"reg", msg_p1>>, <<"imm", 14>>>>>>,
     <<"=", msg_p2, <<"_mm_shuffle_epi32", <<"reg", msg_p2>>, <<"imm", 14>>>>>>,
     <<"=", state0_p1, <<"_mm_sha256rnds2_epu32", <<"reg", state0_p1>>, <<"reg", state1_p1>>, <<"reg", msg_p1>>>>>>,
     <<"=", state0_p2, <<"_mm_sha256rnds2_epu32", <<"reg", state0_p2>>, <<"reg", state1_p2>>, <<"reg", msg_p2>>>>>>,
     <<"=", msgtmp3_p1, <<"_mm_sha256msg1_epu32", <<"reg", msgtmp3_p1>>, <<"reg", msgtmp0_p1>>>>>>,
     <<"=", msgtmp3_p2, <<"_mm_sha256msg1_epu32", <<"reg", msgtmp3_p2>>, <<"reg", msgtmp0_p2>>>>>> >>

\* #define SHA256ROUND_X2
X64_SHA256ROUND_X2(msg_p1, msgtmp0_p1, msgtmp1_p1, msgtmp2_p1, msgtmp3_p1, state0_p1, state1_p1, msg_p2, msgtmp0_p2, msgtmp1_p2, msgtmp2_p2, msgtmp3_p2, state0_p2, state1_p2, kvalue) ==
  << <<"=", msg_p1, <<"reg", msgtmp0_p1>>>>,
     <<"=", msg_p2, <<"reg", msgtmp0_p2>>>>,
     <<"=", msg_p1, <<"_mm_add_epi32", <<"reg", msg_p1>>, <<"_mm_load_si128", kvalue>>>>>>,
     <<"=", msg_p2, <<"_mm_add_epi32", <<"reg", msg_p2>>, <<"_mm_load_si128", kvalue>>>>>>,
     <<"=", state1_p1, <<"_mm_sha256rnds2_epu32", <<"reg", state1_p1>>, <<"reg", state0_p1>>, <<"reg", msg_p1>>>>>>,
     <<"=", state1_p2, <<"_mm_sha256rnds2_epu32", <<"reg", state1_p2>>, <<"reg", state0_p2>>, <<"reg", msg_p2>>>>>>,
     <<"=", msgtmp1_p1, <<"_mm_add_epi32", <<"reg", msgtmp1_p1>>, <<"_mm_alignr_epi8", <<"reg", msgtmp0_p1>>, <<"reg", msgtmp3_p1>>, <<"imm", 4>>>>>>>>,
     <<"=", msgtmp1_p2, <<"_mm_add_epi32", <<"reg", msgtmp1_p2>>, <<"_mm_alignr_epi8", <<"reg", msgtmp0_p2>>, <<"reg", msgtmp3_p2>>, <<"imm", 4>>>>>>>>,
     <<"=", msgtmp1_p1, <<"_mm_sha256msg2_epu32", <<"reg", msgtmp1_p1>>, <<"reg", msgtmp0_p1>>>>>>,
     <<"=", msgtmp1_p2, <<"_mm_sha256msg2_epu32", <<"reg", msgtmp1_p2>>, <<"reg", msgtmp0_p2>>>>>>,
     <<"=", msg_p1, <<"_mm_shuffle_epi32", <<"reg", msg_p1>>, <<"imm", 14>>>>>>,
     <<"=", msg_p2, <<"_mm_shuffle_epi32", <<"reg", msg_p2>>, <<"imm", 14>>>>>>,
     <<"=", state0_p1, <<"_mm_sha256rnds2_epu32", <<"reg", state0_p1>>, <<"reg", state1_p1>>, <<"reg", msg_p1>>>>>>,
     <<"=", state0_p2, <<"_mm_sha256rnds2_epu32", <<"reg", state0_p2>>, <<"reg", state1_p2>>, <<"reg", msg_p2>>>>>>,
     <<"=", msgtmp3_p1, <<"_mm_sha256msg1_epu32", <<"reg", msgtmp3_p1>>, <<"reg", msgtmp0_p1>>>>>>,
     <<"=", msgtmp3_p2, <<"_mm_sha256msg1_epu32", <<"reg", msgtmp3_p2>>, <<"reg", msgtmp0_p2>>>>>> >>

\* the vector locals, all holding j
rec_sha256_fast_x2_locals(j) ==
  [SHUF_MASK |-> j, ABEF_INIT |-> j, CDGH_INIT |-> j, HPAD0_CACHE |-> j, HPAD1_CACHE |-> j,
   STATE0_P1 |-> j, STATE1_P1 |-> j, MSG_P1 |-> j, MSGTMP0_P1 |-> j, MSGTMP1_P1 |-> j,
   MSGTMP2_P1 |-> j, MSGTMP3_P1 |-> j, STATE0_P2 |-> j, STATE1_P2 |-> j, MSG_P2 |-> j,
   MSGTMP0_P2 |-> j, MSGTMP1_P2 |-> j, MSGTMP2_P2 |-> j, MSGTMP3_P2 |-> j, HASH0_SAVE_P1 |-> j,
   HASH1_SAVE_P1 |-> j, HASH0_SAVE_P2 |-> j, HASH1_SAVE_P2 |-> j]

\* the statements before the loop, block by block
rec_sha256_fast_x2_entry ==
  <<
    \* shuffle mask for byte order required by SHA Extensions
    << <<"=", "SHUF_MASK", <<"_mm_set_epi64x", <<"imm64", \h0C0D, \h0E0F, \h0809, \h0A0B>>, <<"imm64", \h0405, \h0607, \h0001, \h0203>>>>>> >>,
    \* pre-arranged/rotated init values for SHA256 rounds, 8x A-H logic
    << <<"=", "ABEF_INIT", <<"_mm_set_epi64x", <<"imm64", \h6A09, \hE667, \hBB67, \hAE85>>, <<"imm64", \h510E, \h527F, \h9B05, \h688C>>>>>>,
       <<"=", "CDGH_INIT", <<"_mm_set_epi64x", <<"imm64", \h3C6E, \hF372, \hA54F, \hF53A>>, <<"imm64", \h1F83, \hD9AB, \h5BE0, \hCD19>>>>>> >>,
    \* pre-arranged/rotated values for 3rd/4th 16bytes of 1x block, SHA256 padding logic
    << <<"=", "HPAD0_CACHE", <<"_mm_set_epi64x", <<"imm64", \h0000, \h0000, \h0000, \h0000>>, <<"imm64", \h0000, \h0000, \h8000, \h0000>>>>>>,
       <<"=", "HPAD1_CACHE", <<"_mm_set_epi64x", <<"imm64", \h0000, \h0100, \h0000, \h0000>>, <<"imm64", \h0000, \h0000, \h0000, \h0000>>>>>> >>,
    \* variables to init/keep hash value through SHA256 rounds
    << <<"=", "HASH0_SAVE_P1", <<"_mm_loadu_si128", <<"adr", "hash", 0>>>>>>,
       <<"=", "HASH1_SAVE_P1", <<"_mm_loadu_si128", <<"adr", "hash", 16>>>>>>,
       <<"=", "HASH0_SAVE_P2", <<"_mm_loadu_si128", <<"adr", "hash", 32>>>>>>,
       <<"=", "HASH1_SAVE_P2", <<"_mm_loadu_si128", <<"adr", "hash", 48>>>>>> >>,
    \* shuffle 32bytes hash/data given required by SHA Extensions
    << <<"=", "HASH0_SAVE_P1", <<"_mm_shuffle_epi8", <<"reg", "HASH0_SAVE_P1">>, <<"reg", "SHUF_MASK">>>>>>,
       <<"=", "HASH1_SAVE_P1", <<"_mm_shuffle_epi8", <<"reg", "HASH1_SAVE_P1">>, <<"reg", "SHUF_MASK">>>>>>,
       <<"=", "HASH0_SAVE_P2", <<"_mm_shuffle_epi8", <<"reg", "HASH0_SAVE_P2">>, <<"reg", "SHUF_MASK">>>>>>,
       <<"=", "HASH1_SAVE_P2", <<"_mm_shuffle_epi8", <<"reg", "HASH1_SAVE_P2">>, <<"reg", "SHUF_MASK">>>>>> >>
  >>

\* one pass of the loop, block by block
rec_sha256_fast_x2_loop ==
  <<
    \* init state values for SHA256 rounds
    << <<"=", "STATE0_P1", <<"reg", "ABEF_INIT">>>>,
       <<"=", "STATE1_P1", <<"reg", "CDGH_INIT">>>>,
       <<"=", "STATE0_P2", <<"reg", "ABEF_INIT">>>>,
       <<"=", "STATE1_P2", <<"reg", "CDGH_INIT">>>> >>,
    \* rounds 0-3
    << <<"=", "MSG_P1", <<"reg", "HASH0_SAVE_P1">>>>,
       <<"=", "MSG_P2", <<"reg", "HASH0_SAVE_P2">>>>,
       <<"=", "MSGTMP0_P1", <<"reg", "MSG_P1">>>>,
       <<"=", "MSGTMP0_P2", <<"reg", "MSG_P2">>>>,
       <<"=", "MSG_P1", <<"_mm_add_epi32", <<"reg", "MSG_P1">>, <<"_mm_load_si128", <<"adr", "K64", 0>>>>>>>>,
       <<"=", "MSG_P2", <<"_mm_add_epi32", <<"reg", "MSG_P2">>, <<"_mm_load_si128", <<"adr", "K64", 0>>>>>>>>,
       <<"=", "STATE1_P1", <<"_mm_sha256rnds2_epu32", <<"reg", "STATE1_P1">>, <<"reg", "STATE0_P1">>, <<"reg", "MSG_P1">>>>>>,
       <<"=", "STATE1_P2", <<"_mm_sha256rnds2_epu32", <<"reg", "STATE1_P2">>, <<"reg", "STATE0_P2">>, <<"reg", "MSG_P2">>>>>>,
       <<"=", "MSG_P1", <<"_mm_shuffle_epi32", <<"reg", "MSG_P1">>, <<"imm", 14>>>>>>,
       <<"=", "MSG_P2", <<"_mm_shuffle_epi32", <<"reg", "MSG_P2">>, <<"imm", 14>>>>>>,
       <<"=", "STATE0_P1", <<"_mm_sha256rnds2_epu32", <<"reg", "STATE0_P1">>, <<"reg", "STATE1_P1">>, <<"reg", "MSG_P1">>>>>>,
       <<"=", "STATE0_P2", <<"_mm_sha256rnds2_epu32", <<"reg", "STATE0_P2">>, <<"reg", "STATE1_P2">>, <<"reg", "MSG_P2">>>>>> >>,
    \* rounds 4-7
    << <<"=", "MSG_P1", <<"reg", "HASH1_SAVE_P1">>>>,
       <<"=", "MSG_P2", <<"reg", "HASH1_SAVE_P2">>>>,
       <<"=", "MSGTMP1_P1", <<"reg", "MSG_P1">>>>,
       <<"=", "MSGTMP1_P2", <<"reg", "MSG_P2">>>>,
       <<"=", "MSG_P1", <<"_mm_add_epi32", <<"reg", "MSG_P1">>, <<"_mm_load_si128", <<"adr", "K64", 4>>>>>>>>,
       <<"=", "MSG_P2", <<"_mm_add_epi32", <<"reg", "MSG_P2">>, <<"_mm_load_si128", <<"adr", "K64", 4>>>>>>>>,
       <<"=", "STATE1_P1", <<"_mm_sha256rnds2_epu32", <<"reg", "STATE1_P1">>, <<"reg", "STATE0_P1">>, <<"reg", "MSG_P1">>>>>>,
       <<"=", "STATE1_P2", <<"_mm_sha256rnds2_epu32", <<"reg", "STATE1_P2">>, <<"reg", "STATE0_P2">>, <<"reg", "MSG_P2">>>>>>,
       <<"=", "MSG_P1", <<"_mm_shuffle_epi32", <<"reg", "MSG_P1">>, <<"imm", 14>>>>>>,
       <<"=", "MSG_P2", <<"_mm_shuffle_epi32", <<"reg", "MSG_P2">>, <<"imm", 14>>>>>>,
       <<"=", "STATE0_P1", <<"_mm_sha256rnds2_epu32", <<"reg", "STATE0_P1">>, <<"reg", "STATE1_P1">>, <<"reg", "MSG_P1">>>>>>,
       <<"=", "STATE0_P2", <<"_mm_sha256rnds2_epu32", <<"reg", "STATE0_P2">>, <<"reg", "STATE1_P2">>, <<"reg", "MSG_P2">>>>>>,
       <<"=", "MSGTMP0_P1", <<"_mm_sha256msg1_epu32", <<"reg", "MSGTMP0_P1">>, <<"reg", "MSGTMP1_P1">>>>>>,
       <<"=", "MSGTMP0_P2", <<"_mm_sha256msg1_epu32", <<"reg", "MSGTMP0_P2">>, <<"reg", "MSGTMP1_P2">>>>>> >>,
    \* rounds 8-11
    << <<"=", "MSG_P1", <<"reg", "HPAD0_CACHE">>>>,
       <<"=", "MSG_P2", <<"reg", "HPAD0_CACHE">>>>,
       <<"=", "MSGTMP2_P1", <<"reg", "MSG_P1">>>>,
       <<"=", "MSGTMP2_P2", <<"reg", "MSG_P2">>>>,
       <<"=", "MSG_P1", <<"_mm_add_epi32", <<"reg", "MSG_P1">>, <<"_mm_load_si128", <<"adr", "K64", 8>>>>>>>>,
       <<"=", "MSG_P2", <<"_mm_add_epi32", <<"reg", "MSG_P2">>, <<"_mm_load_si128", <<"adr", "K64", 8>>>>>>>>,
       <<"=", "STATE1_P1", <<"_mm_sha256rnds2_epu32", <<"reg", "STATE1_P1">>, <<"reg", "STATE0_P1">>, <<"reg", "MSG_P1">>>>>>,
       <<"=", "STATE1_P2", <<"_mm_sha256rnds2_epu32", <<"reg", "STATE1_P2">>, <<"reg", "STATE0_P2">>, <<"reg", "MSG_P2">>>>>>,
       <<"=", "MSG_P1", <<"_mm_shuffle_epi32", <<"reg", "MSG_P1">>, <<"imm", 14>>>>>>,
       <<"=", "MSG_P2", <<"_mm_shuffle_epi32", <<"reg", "MSG_P2">>, <<"imm", 14>>>>>>,
       <<"=", "STATE0_P1", <<"_mm_sha256rnds2_epu32", <<"reg", "STATE0_P1">>, <<"reg", "STATE1_P1">>, <<"reg", "MSG_P1">>>>>>,
       <<"=", "STATE0_P2", <<"_mm_sha256rnds2_epu32", <<"reg", "STATE0_P2">>, <<"reg", "STATE1_P2">>, <<"reg", "MSG_P2">>>>>>,
       <<"=", "MSGTMP1_P1", <<"_mm_sha256msg1_epu32", <<"reg", "MSGTMP1_P1">>, <<"reg", "MSGTMP2_P1">>>>>>,
       <<"=", "MSGTMP1_P2", <<"_mm_sha256msg1_epu32", <<"reg", "MSGTMP1_P2">>, <<"reg", "MSGTMP2_P2">>>>>> >>,
    \* rounds 12-15
    << <<"=", "MSG_P1", <<"reg", "HPAD1_CACHE">>>>,
       <<"=", "MSG_P2", <<"reg", "HPAD1_CACHE">>>>,
       <<"=", "MSGTMP3_P1", <<"reg", "MSG_P1">>>>,
       <<"=", "MSGTMP3_P2", <<"reg", "MSG_P2">>>>,
       <<"=", "MSG_P1", <<"_mm_add_epi32", <<"reg", "MSG_P1">>, <<"_mm_load_si128", <<"adr", "K64", 12>>>>>>>>,
       <<"=", "MSG_P2", <<"_mm_add_epi32", <<"reg", "MSG_P2">>, <<"_mm_load_si128", <<"adr", "K64", 12>>>>>>>>,
       <<"=", "STATE1_P1", <<"_mm_sha256rnds2_epu32", <<"reg", "STATE1_P1">>, <<"reg", "STATE0_P1">>, <<"reg", "MSG_P1">>>>>>,
       <<"=", "STATE1_P2", <<"_mm_sha256rnds2_epu32", <<"reg", "STATE1_P2">>, <<"reg", "STATE0_P2">>, <<"reg", "MSG_P2">>>>>>,
       <<"=", "MSGTMP0_P1", <<"_mm_add_epi32", <<"reg", "MSGTMP0_P1">>, <<"_mm_alignr_epi8", <<"reg", "MSGTMP3_P1">>, <<"reg", "MSGTMP2_P1">>, <<"imm", 4>>>>>>>>,
       <<"=", "MSGTMP0_P2", <<"_mm_add_epi32", <<"reg", "MSGTMP0_P2">>, <<"_mm_alignr_epi8", <<"reg", "MSGTMP3_P2">>, <<"reg", "MSGTMP2_P2">>, <<"imm", 4>>>>>>>>,
       <<"=", "MSGTMP0_P1", <<"_mm_sha256msg2_epu32", <<"reg", "MSGTMP0_P1">>, <<"reg", "MSGTMP3_P1">>>>>>,
       <<"=", "MSGTMP0_P2", <<"_mm_sha256msg2_epu32", <<"reg", "MSGTMP0_P2">>, <<"reg", "MSGTMP3_P2">>>>>>,
       <<"=", "MSG_P1", <<"_mm_shuffle_epi32", <<"reg", "MSG_P1">>, <<"imm", 14>>>>>>,
       <<"=", "MSG_P2", <<"_mm_shuffle_epi32", <<"reg", "MSG_P2">>, <<"imm", 14>>>>>>,
       <<"=", "STATE0_P1", <<"_mm_sha256rnds2_epu32", <<"reg", "STATE0_P1">>, <<"reg", "STATE1_P1">>, <<"reg", "MSG_P1">>>>>>,
       <<"=", "STATE0_P2", <<"_mm_sha256rnds2_epu32", <<"reg", "STATE0_P2">>, <<"reg", "STATE1_P2">>, <<"reg", "MSG_P2">>>>>>,
       <<"=", "MSGTMP2_P1", <<"_mm_sha256msg1_epu32", <<"reg", "MSGTMP2_P1">>, <<"reg", "MSGTMP3_P1">>>>>>,
       <<"=", "MSGTMP2_P2", <<"_mm_sha256msg1_epu32", <<"reg", "MSGTMP2_P2">>, <<"reg", "MSGTMP3_P2">>>>>> >>,
    \* rounds 16-19, 20-23, 24-27, 28-31
    X64_SHA256ROUND_X2("MSG_P1", "MSGTMP0_P1", "MSGTMP1_P1", "MSGTMP2_P1", "MSGTMP3_P1", "STATE0_P1", "STATE1_P1",
                       "MSG_P2", "MSGTMP0_P2", "MSGTMP1_P2", "MSGTMP2_P2", "MSGTMP3_P2", "STATE0_P2", "STATE1_P2",
                       <<"adr", "K64", 16>>),
    X64_SHA256ROUND_X2("MSG_P1", "MSGTMP1_P1", "MSGTMP2_P1", "MSGTMP3_P1", "MSGTMP0_P1", "STATE0_P1", "STATE1_P1",
                       "MSG_P2", "MSGTMP1_P2", "MSGTMP2_P2", "MSGTMP3_P2", "MSGTMP0_P2", "STATE0_P2", "STATE1_P2",
                       <<"adr", "K64", 20>>),
    X64_SHA256ROUND_X2("MSG_P1", "MSGTMP2_P1", "MSGTMP3_P1", "MSGTMP0_P1", "MSGTMP1_P1", "STATE0_P1", "STATE1_P1",
                       "MSG_P2", "MSGTMP2_P2", "MSGTMP3_P2", "MSGTMP0_P2", "MSGTMP1_P2", "STATE0_P2", "STATE1_P2",
                       <<"adr", "K64", 24>>),
    X64_SHA256ROUND_X2("MSG_P1", "MSGTMP3_P1", "MSGTMP0_P1", "MSGTMP1_P1", "MSGTMP2_P1", "STATE0_P1", "STATE1_P1",
                       "MSG_P2", "MSGTMP3_P2", "MSGTMP0_P2", "MSGTMP1_P2", "MSGTMP2_P2", "STATE0_P2", "STATE1_P2",
                       <<"adr", "K64", 28>>),
    \* rounds 32-35, 36-39, 40-43, 44-47
    X64_SHA256ROUND_X2("MSG_P1", "MSGTMP0_P1", "MSGTMP1_P1", "MSGTMP2_P1", "MSGTMP3_P1", "STATE0_P1", "STATE1_P1",
                       "MSG_P2", "MSGTMP0_P2", "MSGTMP1_P2", "MSGTMP2_P2", "MSGTMP3_P2", "STATE0_P2", "STATE1_P2",
                       <<"adr", "K64", 32>>),
    X64_SHA256ROUND_X2("MSG_P1", "MSGTMP1_P1", "MSGTMP2_P1", "MSGTMP3_P1", "MSGTMP0_P1", "STATE0_P1", "STATE1_P1",
                       "MSG_P2", "MSGTMP1_P2", "MSGTMP2_P2", "MSGTMP3_P2", "MSGTMP0_P2", "STATE0_P2", "STATE1_P2",
                       <<"adr", "K64", 36>>),
    X64_SHA256ROUND_X2("MSG_P1", "MSGTMP2_P1", "MSGTMP3_P1", "MSGTMP0_P1", "MSGTMP1_P1", "STATE0_P1", "STATE1_P1",
                       "MSG_P2", "MSGTMP2_P2", "MSGTMP3_P2", "MSGTMP0_P2", "MSGTMP1_P2", "STATE0_P2", "STATE1_P2",
                       <<"adr", "K64", 40>>),
    X64_SHA256ROUND_X2("MSG_P1", "MSGTMP3_P1", "MSGTMP0_P1", "MSGTMP1_P1", "MSGTMP2_P1", "STATE0_P1", "STATE1_P1",
                       "MSG_P2", "MSGTMP3_P2", "MSGTMP0_P2", "MSGTMP1_P2", "MSGTMP2_P2", "STATE0_P2", "STATE1_P2",
                       <<"adr", "K64", 44>>),
    \* rounds 48-51
    X64_SHA256ROUND_X2("MSG_P1", "MSGTMP0_P1", "MSGTMP1_P1", "MSGTMP2_P1", "MSGTMP3_P1", "STATE0_P1", "STATE1_P1",
                       "MSG_P2", "MSGTMP0_P2", "MSGTMP1_P2", "MSGTMP2_P2", "MSGTMP3_P2", "STATE0_P2", "STATE1_P2",
                       <<"adr", "K64", 48>>),
    \* rounds 52-55
    << <<"=", "MSG_P1", <<"reg", "MSGTMP1_P1">>>>,
       <<"=", "MSG_P2", <<"reg", "MSGTMP1_P2">>>>,
       <<"=", "MSG_P1", <<"_mm_add_epi32", <<"reg", "MSG_P1">>, <<"_mm_load_si128", <<"adr", "K64", 52>>>>>>>>,
       <<"=", "MSG_P2", <<"_mm_add_epi32", <<"reg", "MSG_P2">>, <<"_mm_load_si128", <<"adr", "K64", 52>>>>>>>>,
       <<"=", "STATE1_P1", <<"_mm_sha256rnds2_epu32", <<"reg", "STATE1_P1">>, <<"reg", "STATE0_P1">>, <<"reg", "MSG_P1">>>>>>,
       <<"=", "STATE1_P2", <<"_mm_sha256rnds2_epu32", <<"reg", "STATE1_P2">>, <<"reg", "STATE0_P2">>, <<"reg", "MSG_P2">>>>>>,
       <<"=", "MSGTMP2_P1", <<"_mm_add_epi32", <<"reg", "MSGTMP2_P1">>, <<"_mm_alignr_epi8", <<"reg", "MSGTMP1_P1">>, <<"reg", "MSGTMP0_P1">>, <<"imm", 4>>>>>>>>,
       <<"=", "MSGTMP2_P2", <<"_mm_add_epi32", <<"reg", "MSGTMP2_P2">>, <<"_mm_alignr_epi8", <<"reg", "MSGTMP1_P2">>, <<"reg", "MSGTMP0_P2">>, <<"imm", 4>>>>>>>>,
       <<"=", "MSGTMP2_P1", <<"_mm_sha256msg2_epu32", <<"reg", "MSGTMP2_P1">>, <<"reg", "MSGTMP1_P1">>>>>>,
       <<"=", "MSGTMP2_P2", <<"_mm_sha256msg2_epu32", <<"reg", "MSGTMP2_P2">>, <<"reg", "MSGTMP1_P2">>>>>>,
       <<"=", "MSG_P1", <<"_mm_shuffle_epi32", <<"reg", "MSG_P1">>, <<"imm", 14>>>>>>,
       <<"=", "MSG_P2", <<"_mm_shuffle_epi32", <<"reg", "MSG_P2">>, <<"imm", 14>>>>>>,
       <<"=", "STATE0_P1", <<"_mm_sha256rnds2_epu32", <<"reg", "STATE0_P1">>, <<"reg", "STATE1_P1">>, <<"reg", "MSG_P1">>>>>>,
       <<"=", "STATE0_P2", <<"_mm_sha256rnds2_epu32", <<"reg", "STATE0_P2">>, <<"reg", "STATE1_P2">>, <<"reg", "MSG_P2">>>>>> >>,
    \* rounds 56-59
    << <<"=", "MSG_P1", <<"reg", "MSGTMP2_P1">>>>,
       <<"=", "MSG_P2", <<"reg", "MSGTMP2_P2">>>>,
       <<"=", "MSG_P1", <<"_mm_add_epi32", <<"reg", "MSG_P1">>, <<"_mm_load_si128", <<"adr", "K64", 56>>>>>>>>,
       <<"=", "MSG_P2", <<"_mm_add_epi32", <<"reg", "MSG_P2">>, <<"_mm_load_si128", <<"adr", "K64", 56>>>>>>>>,
       <<"=", "STATE1_P1", <<"_mm_sha256rnds2_epu32", <<"reg", "STATE1_P1">>, <<"reg", "STATE0_P1">>, <<"reg", "MSG_P1">>>>>>,
       <<"=", "STATE1_P2", <<"_mm_sha256rnds2_epu32", <<"reg", "STATE1_P2">>, <<"reg", "STATE0_P2">>, <<"reg", "MSG_P2">>>>>>,
       <<"=", "MSGTMP3_P1", <<"_mm_add_epi32", <<"reg", "MSGTMP3_P1">>, <<"_mm_alignr_epi8", <<"reg", "MSGTMP2_P1">>, <<"reg", "MSGTMP1_P1">>, <<"imm", 4>>>>>>>>,
       <<"=", "MSGTMP3_P2", <<"_mm_add_epi32", <<"reg", "MSGTMP3_P2">>, <<"_mm_alignr_epi8", <<"reg", "MSGTMP2_P2">>, <<"reg", "MSGTMP1_P2">>, <<"imm", 4>>>>>>>>,
       <<"=", "MSGTMP3_P1", <<"_mm_sha256msg2_epu32", <<"reg", "MSGTMP3_P1">>, <<"reg", "MSGTMP2_P1">>>>>>,
       <<"=", "MSGTMP3_P2", <<"_mm_sha256msg2_epu32", <<"reg", "MSGTMP3_P2">>, <<"reg", "MSGTMP2_P2">>>>>>,
       <<"=", "MSG_P1", <<"_mm_shuffle_epi32", <<"reg", "MSG_P1">>, <<"imm", 14>>>>>>,
       <<"=", "MSG_P2", <<"_mm_shuffle_epi32", <<"reg", "MSG_P2">>, <<"imm", 14>>>>>>,
       <<"=", "STATE0_P1", <<"_mm_sha256rnds2_epu32", <<"reg", "STATE0_P1">>, <<"reg", "STATE1_P1">>, <<"reg", "MSG_P1">>>>>>,
       <<"=", "STATE0_P2", <<"_mm_sha256rnds2_epu32", <<"reg", "STATE0_P2">>, <<"reg", "STATE1_P2">>, <<"reg", "MSG_P2">>>>>> >>,
    \* rounds 60-63
    << <<"=", "MSG_P1", <<"reg", "MSGTMP3_P1">>>>,
       <<"=", "MSG_P2", <<"reg", "MSGTMP3_P2">>>>,
       <<"=", "MSG_P1", <<"_mm_add_epi32", <<"reg", "MSG_P1">>, <<"_mm_load_si128", <<"adr", "K64", 60>>>>>>>>,
       <<"=", "MSG_P2", <<"_mm_add_epi32", <<"reg", "MSG_P2">>, <<"_mm_load_si128", <<"adr", "K64", 60>>>>>>>>,
       <<"=", "STATE1_P1", <<"_mm_sha256rnds2_epu32", <<"reg", "STATE1_P1">>, <<"reg", "STATE0_P1">>, <<"reg", "MSG_P1">>>>>>,
       <<"=", "STATE1_P2", <<"_mm_sha256rnds2_epu32", <<"reg", "STATE1_P2">>, <<"reg", "STATE0_P2">>, <<"reg", "MSG_P2">>>>>>,
       <<"=", "MSG_P1", <<"_mm_shuffle_epi32", <<"reg", "MSG_P1">>, <<"imm", 14>>>>>>,
       <<"=", "MSG_P2", <<"_mm_shuffle_epi32", <<"reg", "MSG_P2">>, <<"imm", 14>>>>>>,
       <<"=", "STATE0_P1", <<"_mm_sha256rnds2_epu32", <<"reg", "STATE0_P1">>, <<"reg", "STATE1_P1">>, <<"reg", "MSG_P1">>>>>>,
       <<"=", "STATE0_P2", <<"_mm_sha256rnds2_epu32", <<"reg", "STATE0_P2">>, <<"reg", "STATE1_P2">>, <<"reg", "MSG_P2">>>>>> >>,
    \* add previous/init hash values to current state
    << <<"=", "STATE0_P1", <<"_mm_add_epi32", <<"reg", "STATE0_P1">>, <<"reg", "ABEF_INIT">>>>>>,
       <<"=", "STATE0_P2", <<"_mm_add_epi32", <<"reg", "STATE0_P2">>, <<"reg", "ABEF_INIT">>>>>>,
       <<"=", "STATE1_P1", <<"_mm_add_epi32", <<"reg", "STATE1_P1">>, <<"reg", "CDGH_INIT">>>>>>,
       <<"=", "STATE1_P2", <<"_mm_add_epi32", <<"reg", "STATE1_P2">>, <<"reg", "CDGH_INIT">>>>>> >>,
    \* reorder hash correctly, save for next iteration or final result
    << <<"=", "STATE0_P1", <<"_mm_shuffle_epi32", <<"reg", "STATE0_P1">>, <<"imm", 27>>>>>>,
       <<"=", "STATE1_P1", <<"_mm_shuffle_epi32", <<"reg", "STATE1_P1">>, <<"imm", 177>>>>>>,
       <<"=", "STATE0_P2", <<"_mm_shuffle_epi32", <<"reg", "STATE0_P2">>, <<"imm", 27>>>>>>,
       <<"=", "STATE1_P2", <<"_mm_shuffle_epi32", <<"reg", "STATE1_P2">>, <<"imm", 177>>>>>>,
       <<"=", "HASH0_SAVE_P1", <<"_mm_blend_epi16", <<"reg", "STATE0_P1">>, <<"reg", "STATE1_P1">>, <<"imm", 240>>>>>>,
       <<"=", "HASH1_SAVE_P1", <<"_mm_alignr_epi8", <<"reg", "STATE1_P1">>, <<"reg", "STATE0_P1">>, <<"imm", 8>>>>>>,
       <<"=", "HASH0_SAVE_P2", <<"_mm_blend_epi16", <<"reg", "STATE0_P2">>, <<"reg", "STATE1_P2">>, <<"imm", 240>>>>>>,
       <<"=", "HASH1_SAVE_P2", <<"_mm_alignr_epi8", <<"reg", "STATE1_P2">>, <<"reg", "STATE0_P2">>, <<"imm", 8>>>>>> >>
  >>

\* rec_sha256_fast_x2_exit storing lane 2 at hash[64] and hash[80]
rec_sha256_fast_x2_exit_Lane2Far ==
  <<
    \* shuffle SHA Extensions hash value back to normal
    << <<"=", "HASH0_SAVE_P1", <<"_mm_shuffle_epi8", <<"reg", "HASH0_SAVE_P1">>, <<"reg", "SHUF_MASK">>>>>>,
       <<"=", "HASH1_SAVE_P1", <<"_mm_shuffle_epi8", <<"reg", "HASH1_SAVE_P1">>, <<"reg", "SHUF_MASK">>>>>>,
       <<"=", "HASH0_SAVE_P2", <<"_mm_shuffle_epi8", <<"reg", "HASH0_SAVE_P2">>, <<"reg", "SHUF_MASK">>>>>>,
       <<"=", "HASH1_SAVE_P2", <<"_mm_shuffle_epi8", <<"reg", "HASH1_SAVE_P2">>, <<"reg", "SHUF_MASK">>>>>> >>,
    \* copy/return final hash value into *hash
    << <<"store", <<"adr", "hash", 0>>, <<"reg", "HASH0_SAVE_P1">>>>,
       <<"store", <<"adr", "hash", 16>>, <<"reg", "HASH1_SAVE_P1">>>>,
       <<"store", <<"adr", "hash", 64>>, <<"reg", "HASH0_SAVE_P2">>>>,
       <<"store", <<"adr", "hash", 80>>, <<"reg", "HASH1_SAVE_P2">>>> >>
  >>

\* the statements after the loop, block by block
rec_sha256_fast_x2_exit ==
  <<
    \* shuffle SHA Extensions hash value back to normal
    << <<"=", "HASH0_SAVE_P1", <<"_mm_shuffle_epi8", <<"reg", "HASH0_SAVE_P1">>, <<"reg", "SHUF_MASK">>>>>>,
       <<"=", "HASH1_SAVE_P1", <<"_mm_shuffle_epi8", <<"reg", "HASH1_SAVE_P1">>, <<"reg", "SHUF_MASK">>>>>>,
       <<"=", "HASH0_SAVE_P2", <<"_mm_shuffle_epi8", <<"reg", "HASH0_SAVE_P2">>, <<"reg", "SHUF_MASK">>>>>>,
       <<"=", "HASH1_SAVE_P2", <<"_mm_shuffle_epi8", <<"reg", "HASH1_SAVE_P2">>, <<"reg", "SHUF_MASK">>>>>> >>,
    \* copy/return final hash value into *hash
    << <<"store", <<"adr", "hash", 0>>, <<"reg", "HASH0_SAVE_P1">>>>,
       <<"store", <<"adr", "hash", 16>>, <<"reg", "HASH1_SAVE_P1">>>>,
       <<"store", <<"adr", "hash", 32>>, <<"reg", "HASH0_SAVE_P2">>>>,
       <<"store", <<"adr", "hash", 48>>, <<"reg", "HASH1_SAVE_P2">>>> >>
  >>

\* ----------------------------------------------------------------------
\* rec_sha256_fast_x3 (OPTIMIZE.md, lines 538-859)

\* #define SHA256ROUND_X3
X64_SHA256ROUND_X3(msg_p1, msgtmp0_p1, msgtmp1_p1, msgtmp2_p1, msgtmp3_p1, state0_p1, state1_p1, msg_p2, msgtmp0_p2, msgtmp1_p2, msgtmp2_p2, msgtmp3_p2, state0_p2, state1_p2, msg_p3, msgtmp0_p3, msgtmp1_p3, msgtmp2_p3, msgtmp3_p3, state0_p3, state1_p3, kvalue) ==
  << <<"=", msg_p1, <<"reg", msgtmp0_p1>>>>,
     <<"=", msg_p2, <<"reg", msgtmp0_p2>>>>,
     <<"=", msg_p3, <<"reg", msgtmp0_p3>>>>,
     <<"=", msg_p1, <<"_mm_add_epi32", <<"reg", msg_p1>>, <<"_mm_load_si128", kvalue>>>>>>,
     <<"=", msg_p2, <<"_mm_add_epi32", <<"reg", msg_p2>>, <<"_mm_load_si128", kvalue>>>>>>,
     <<"=", msg_p3, <<"_mm_add_epi32", <<"reg", msg_p3>>, <<"_mm_load_si128", kvalue>>>>>>,
     <<"=", state1_p1, <<"_mm_sha256rnds2_epu32", <<"reg", state1_p1>>, <<"reg", state0_p1>>, <<"reg", msg_p1>>>>>>,
     <<"=", state1_p2, <<"_mm_sha256rnds2_epu32", <<"reg", state1_p2>>, <<"reg", state0_p2>>, <<"reg", msg_p2>>>>>>,
     <<"=", state1_p3, <<"_mm_sha256rnds2_epu32", <<"reg", state1_p3>>, <<"reg", state0_p3>>, <<"reg", msg_p3>>>>>>,
     <<"=", msgtmp1_p1, <<"_mm_add_epi32", <<"reg", msgtmp1_p1>>, <<"_mm_alignr_epi8", <<"reg", msgtmp0_p1>>, <<"reg", msgtmp3_p1>>, <<"imm", 4>>>>>>>>,
     <<"=", msgtmp1_p2, <<"_mm_add_epi32", <<"reg", msgtmp1_p2>>, <<"_mm_alignr_epi8", <<"reg", msgtmp0_p2>>, <<"reg", msgtmp3_p2>>, <<"imm", 4>>>>>>>>,
     <<"=", msgtmp1_p3, <<"_mm_add_epi32", <<"reg", msgtmp1_p3>>, <<"_mm_alignr_epi8", <<"reg", msgtmp0_p3>>, <<"reg", msgtmp3_p3>>, <<"imm", 4>>>>>>>>,
     <<"=", msgtmp1_p1, <<"_mm_sha256msg2_epu32", <<"reg", msgtmp1_p1>>, <<"reg", msgtmp0_p1>>>>>>,
     <<"=", msgtmp1_p2, <<"_mm_sha256msg2_epu32", <<"reg", msgtmp1_p2>>, <<"reg", msgtmp0_p2>>>>>>,
     <<"=", msgtmp1_p3, <<"_mm_sha256msg2_epu32", <<"reg", msgtmp1_p3>>, <<"reg", msgtmp0_p3>>>>>>,
     <<"=", msg_p1, <<"_mm_shuffle_epi32", <<"reg", msg_p1>>, <<"imm", 14>>>>>>,
     <<"=", msg_p2, <<"_mm_shuffle_epi32", <<"reg", msg_p2>>, <<"imm", 14>>>>>>,
     <<"=", msg_p3, <<"_mm_shuffle_epi32", <<"reg", msg_p3>>, <<"imm", 14>>>>>>,
     <<"=", state0_p1, <<"_mm_sha256rnds2_epu32", <<"reg", state0_p1>>, <<"reg", state1_p1>>, <<"reg", msg_p1>>>>>>,
     <<"=", state0_p2, <<"_mm_sha256rnds2_epu32", <<"reg", state0_p2>>, <<"reg", state1_p2>>, <<"reg", msg_p2>>>>>>,
     <<"=", state0_p3, <<"_mm_sha256rnds2_epu32", <<"reg", state0_p3>>, <<"reg", state1_p3>>, <<"reg", msg_p3>>>>>>,
     <<"=", msgtmp3_p1, <<"_mm_sha256msg1_epu32", <<"reg", msgtmp3_p1>>, <<"reg", msgtmp0_p1>>>>>>,
     <<"=", msgtmp3_p2, <<"_mm_sha256msg1_epu32", <<"reg", msgtmp3_p2>>, <<"reg", msgtmp0_p2>>>>>>,
     <<"=", msgtmp3_p3, <<"_mm_sha256msg1_epu32", <<"reg", msgtmp3_p3>>, <<"reg", msgtmp0_p3>>>>>> >>

\* the vector locals, all holding j
rec_sha256_fast_x3_locals(j) ==
  [SHUF_MASK |-> j, ABEF_INIT |-> j, CDGH_INIT |-> j, HPAD0_CACHE |-> j, HPAD1_CACHE |-> j,
   STATE0_P1 |-> j, STATE1_P1 |-> j, MSG_P1 |-> j, MSGTMP0_P1 |-> j, MSGTMP1_P1 |-> j,
   MSGTMP2_P1 |-> j, MSGTMP3_P1 |-> j, STATE0_P2 |-> j, STATE1_P2 |-> j, MSG_P2 |-> j,
   MSGTMP0_P2 |-> j, MSGTMP1_P2 |-> j, MSGTMP2_P2 |-> j, MSGTMP3_P2 |-> j, STATE0_P3 |-> j,
   STATE1_P3 |-> j, MSG_P3 |-> j, MSGTMP0_P3 |-> j, MSGTMP1_P3 |-> j, MSGTMP2_P3 |-> j,
   MSGTMP3_P3 |-> j, HASH0_SAVE_P1 |-> j, HASH1_SAVE_P1 |-> j, HASH0_SAVE_P2 |-> j,
   HASH1_SAVE_P2 |-> j, HASH0_SAVE_P3 |-> j, HASH1_SAVE_P3 |-> j]

\* the statements before the loop, block by block
rec_sha256_fast_x3_entry ==
  <<
    \* shuffle mask for byte order required by SHA Extensions
    << <<"=", "SHUF_MASK", <<"_mm_set_epi64x", <<"imm64", \h0C0D, \h0E0F, \h0809, \h0A0B>>, <<"imm64", \h0405, \h0607, \h0001, \h0203>>>>>> >>,
    \* pre-arranged/rotated init values for SHA256 rounds, 8x A-H logic
    << <<"=", "ABEF_INIT", <<"_mm_set_epi64x", <<"imm64", \h6A09, \hE667, \hBB67, \hAE85>>, <<"imm64", \h510E, \h527F, \h9B05, \h688C>>>>>>,
       <<"=", "CDGH_INIT", <<"_mm_set_epi64x", <<"imm64", \h3C6E, \hF372, \hA54F, \hF53A>>, <<"imm64", \h1F83, \hD9AB, \h5BE0, \hCD19>>>>>> >>,
    \* pre-arranged/rotated values for 3rd/4th 16bytes of 1x block, SHA256 padding logic
    << <<"=", "HPAD0_CACHE", <<"_mm_set_epi64x", <<"imm64", \h0000, \h0000, \h0000, \h0000>>, <<"imm64", \h0000, \h0000, \h8000, \h0000>>>>>>,
       <<"=", "HPAD1_CACHE", <<"_mm_set_epi64x", <<"imm64", \h0000, \h0100, \h0000, \h0000>>, <<"imm64", \h0000, \h0000, \h0000, \h0000>>>>>> >>,
    \* variables to init/keep hash value through SHA256 rounds
    << <<"=", "HASH0_SAVE_P1", <<"_mm_loadu_si128", <<"adr", "hash", 0>>>>>>,
       <<"=", "HASH1_SAVE_P1", <<"_mm_loadu_si128", <<"adr", "hash", 16>>>>>>,
       <<"=", "HASH0_SAVE_P2", <<"_mm_loadu_si128", <<"adr", "hash", 32>>>>>>,
       <<"=", "HASH1_SAVE_P2", <<"_mm_loadu_si128", <<"adr", "hash", 48>>>>>>,
       <<"=", "HASH0_SAVE_P3", <<"_mm_loadu_si128", <<"adr", "hash", 64>>>>>>,
       <<"=", "HASH1_SAVE_P3", <<"_mm_loadu_si128", <<"adr", "hash", 80>>>>>> >>,
    \* shuffle 32bytes hash/data given required by SHA Extensions
    << <<"=", "HASH0_SAVE_P1", <<"_mm_shuffle_epi8", <<"reg", "HASH0_SAVE_P1">>, <<"reg", "SHUF_MASK">>>>>>,
       <<"=", "HASH1_SAVE_P1", <<"_mm_shuffle_epi8", <<"reg", "HASH1_SAVE_P1">>, <<"reg", "SHUF_MASK">>>>>>,
       <<"=", "HASH0_SAVE_P2", <<"_mm_shuffle_epi8", <<"reg", "HASH0_SAVE_P2">>, <<"reg", "SHUF_MASK">>>>>>,
       <<"=", "HASH1_SAVE_P2", <<"_mm_shuffle_epi8", <<"reg", "HASH1_SAVE_P2">>, <<"reg", "SHUF_MASK">>>>>>,
       <<"=", "HASH0_SAVE_P3", <<"_mm_shuffle_epi8", <<"reg", "HASH0_SAVE_P3">>, <<"reg", "SHUF_MASK">>>>>>,
       <<"=", "HASH1_SAVE_P3", <<"_mm_shuffle_epi8", <<"reg", "HASH1_SAVE_P3">>, <<"reg", "SHUF_MASK">>>>>> >>
  >>

\* one pass of the loop, block by block
rec_sha256_fast_x3_loop ==
  <<
    \* init state values for SHA256 rounds
    << <<"=", "STATE0_P1", <<"reg", "ABEF_INIT">>>>,
       <<"=", "STATE1_P1", <<"reg", "CDGH_INIT">>>>,
       <<"=", "STATE0_P2", <<"reg", "ABEF_INIT">>>>,
       <<"=", "STATE1_P2", <<"reg", "CDGH_INIT">>>>,
       <<"=", "STATE0_P3", <<"reg", "ABEF_INIT">>>>,
       <<"=", "STATE1_P3", <<"reg", "CDGH_INIT">>>> >>,
    \* rounds 0-3
    << <<"=", "MSG_P1", <<"reg", "HASH0_SAVE_P1">>>>,
       <<"=", "MSG_P2", <<"reg", "HASH0_SAVE_P2">>>>,
       <<"=", "MSG_P3", <<"reg", "HASH0_SAVE_P3">>>>,
       <<"=", "MSGTMP0_P1", <<"reg", "MSG_P1">>>>,
       <<"=", "MSGTMP0_P2", <<"reg", "MSG_P2">>>>,
       <<"=", "MSGTMP0_P3", <<"reg", "MSG_P3">>>>,
       <<"=", "MSG_P1", <<"_mm_add_epi32", <<"reg", "MSG_P1">>, <<"_mm_load_si128", <<"adr", "K64", 0>>>>>>>>,
       <<"=", "MSG_P2", <<"_mm_add_epi32", <<"reg", "MSG_P2">>, <<"_mm_load_si128", <<"adr", "K64", 0>>>>>>>>,
       <<"=", "MSG_P3", <<"_mm_add_epi32", <<"reg", "MSG_P3">>, <<"_mm_load_si128", <<"adr", "K64", 0>>>>>>>>,
       <<"=", "STATE1_P1", <<"_mm_sha256rnds2_epu32", <<"reg", "STATE1_P1">>, <<"reg", "STATE0_P1">>, <<"reg", "MSG_P1">>>>>>,
       <<"=", "STATE1_P2", <<"_mm_sha256rnds2_epu32", <<"reg", "STATE1_P2">>, <<"reg", "STATE0_P2">>, <<"reg", "MSG_P2">>>>>>,
       <<"=", "STATE1_P3", <<"_mm_sha256rnds2_epu32", <<"reg", "STATE1_P3">>, <<"reg", "STATE0_P3">>, <<"reg", "MSG_P3">>>>>>,
       <<"=", "MSG_P1", <<"_mm_shuffle_epi32", <<"reg", "MSG_P1">>, <<"imm", 14>>>>>>,
       <<"=", "MSG_P2", <<"_mm_shuffle_epi32", <<"reg", "MSG_P2">>, <<"imm", 14>>>>>>,
       <<"=", "MSG_P3", <<"_mm_shuffle_epi32", <<"reg", "MSG_P3">>, <<"imm", 14>>>>>>,
       <<"=", "STATE0_P1", <<"_mm_sha256rnds2_epu32", <<"reg", "STATE0_P1">>, <<"reg", "STATE1_P1">>, <<"reg", "MSG_P1">>>>>>,
       <<"=", "STATE0_P2", <<"_mm_sha256rnds2_epu32", <<"reg", "STATE0_P2">>, <<"reg", "STATE1_P2">>, <<"reg", "MSG_P2">>>>>>,
       <<"=", "STATE0_P3", <<"_mm_sha256rnds2_epu32", <<"reg", "STATE0_P3">>, <<"reg", "STATE1_P3">>, <<"reg", "MSG_P3">>>>>> >>,
    \* rounds 4-7
    << <<"=", "MSG_P1", <<"reg", "HASH1_SAVE_P1">>>>,
       <<"=", "MSG_P2", <<"reg", "HASH1_SAVE_P2">>>>,
       <<"=", "MSG_P3", <<"reg", "HASH1_SAVE_P3">>>>,
       <<"=", "MSGTMP1_P1", <<"reg", "MSG_P1">>>>,
       <<"=", "MSGTMP1_P2", <<"reg", "MSG_P2">>>>,
       <<"=", "MSGTMP1_P3", <<"reg", "MSG_P3">>>>,
       <<"=", "MSG_P1", <<"_mm_add_epi32", <<"reg", "MSG_P1">>, <<"_mm_load_si128", <<"adr", "K64", 4>>>>>>>>,
       <<"=", "MSG_P2", <<"_mm_add_epi32", <<"reg", "MSG_P2">>, <<"_mm_load_si128", <<"adr", "K64", 4>>>>>>>>,
       <<"=", "MSG_P3", <<"_mm_add_epi32", <<"reg", "MSG_P3">>, <<"_mm_load_si128", <<"adr", "K64", 4>>>>>>>>,
       <<"=", "STATE1_P1", <<"_mm_sha256rnds2_epu32", <<"reg", "STATE1_P1">>, <<"reg", "STATE0_P1">>, <<"reg", "MSG_P1">>>>>>,
       <<"=", "STATE1_P2", <<"_mm_sha256rnds2_epu32", <<"reg", "STATE1_P2">>, <<"reg", "STATE0_P2">>, <<"reg", "MSG_P2">>>>>>,
       <<"=", "STATE1_P3", <<"_mm_sha256rnds2_epu32", <<"reg", "STATE1_P3">>, <<"reg", "STATE0_P3">>, <<"reg", "MSG_P3">>>>>>,
       <<"=", "MSG_P1", <<"_mm_shuffle_epi32", <<"reg", "MSG_P1">>, <<"imm", 14>>>>>>,
       <<"=", "MSG_P2", <<"_mm_shuffle_epi32", <<"reg", "MSG_P2">>, <<"imm", 14>>>>>>,
       <<"=", "MSG_P3", <<"_mm_shuffle_epi32", <<"reg", "MSG_P3">>, <<"imm", 14>>>>>>,
       <<"=", "STATE0_P1", <<"_mm_sha256rnds2_epu32", <<"reg", "STATE0_P1">>, <<"reg", "STATE1_P1">>, <<"reg", "MSG_P1">>>>>>,
       <<"=", "STATE0_P2", <<"_mm_sha256rnds2_epu32", <<"reg", "STATE0_P2">>, <<"reg", "STATE1_P2">>, <<"reg", "MSG_P2">>>>>>,
       <<"=", "STATE0_P3", <<"_mm_sha256rnds2_epu32", <<"reg", "STATE0_P3">>, <<"reg", "STATE1_P3">>, <<"reg", "MSG_P3">>>>>>,
       <<"=", "MSGTMP0_P1", <<"_mm_sha256msg1_epu32", <<"reg", "MSGTMP0_P1">>, <<"reg", "MSGTMP1_P1">>>>>>,
       <<"=", "MSGTMP0_P2", <<"_mm_sha256msg1_epu32", <<"reg", "MSGTMP0_P2">>, <<"reg", "MSGTMP1_P2">>>>>>,
       <<"=", "MSGTMP0_P3", <<"_mm_sha256msg1_epu32", <<"reg", "MSGTMP0_P3">>, <<"reg", "MSGTMP1_P3">>>>>> >>,
    \* rounds 8-11
    << <<"=", "MSG_P1", <<"reg", "HPAD0_CACHE">>>>,
       <<"=", "MSG_P2", <<"reg", "HPAD0_CACHE">>>>,
       <<"=", "MSG_P3", <<"reg", "HPAD0_CACHE">>>>,
       <<"=", "MSGTMP2_P1", <<"reg", "MSG_P1">>>>,
       <<"=", "MSGTMP2_P2", <<"reg", "MSG_P2">>>>,
       <<"=", "MSGTMP2_P3", <<"reg", "MSG_P3">>>>,
       <<"=", "MSG_P1", <<"_mm_add_epi32", <<"reg", "MSG_P1">>, <<"_mm_load_si128", <<"adr", "K64", 8>>>>>>>>,
       <<"=", "MSG_P2", <<"_mm_add_epi32", <<"reg", "MSG_P2">>, <<"_mm_load_si128", <<"adr", "K64", 8>>>>>>>>,
       <<"=", "MSG_P3", <<"_mm_add_epi32", <<"reg", "MSG_P3">>, <<"_mm_load_si128", <<"adr", "K64", 8>>>>>>>>,
       <<"=", "STATE1_P1", <<"_mm_sha256rnds2_epu32", <<"reg", "STATE1_P1">>, <<"reg", "STATE0_P1">>, <<"reg", "MSG_P1">>>>>>,
       <<"=", "STATE1_P2", <<"_mm_sha256rnds2_epu32", <<"reg", "STATE1_P2">>, <<"reg", "STATE0_P2">>, <<"reg", "MSG_P2">>>>>>,
       <<"=", "STATE1_P3", <<"_mm_sha256rnds2_epu32", <<"reg", "STATE1_P3">>, <<"reg", "STATE0_P3">>, <<"reg", "MSG_P3">>>>>>,
       <<"=", "MSG_P1", <<"_mm_shuffle_epi32", <<"reg", "MSG_P1">>, <<"imm", 14>>>>>>,
       <<"=", "MSG_P2", <<"_mm_shuffle_epi32", <<"reg", "MSG_P2">>, <<"imm", 14>>>>>>,
       <<"=", "MSG_P3", <<"_mm_shuffle_epi32", <<"reg", "MSG_P3">>, <<"imm", 14>>>>>>,
       <<"=", "STATE0_P1", <<"_mm_sha256rnds2_epu32", <<"reg", "STATE0_P1">>, <<"reg", "STATE1_P1">>, <<"reg", "MSG_P1">>>>>>,
       <<"=", "STATE0_P2", <<"_mm_sha256rnds2_epu32", <<"reg", "STATE0_P2">>, <<"reg", "STATE1_P2">>, <<"reg", "MSG_P2">>>>>>,
       <<"=", "STATE0_P3", <<"_mm_sha256rnds2_epu32", <<"reg", "STATE0_P3">>, <<"reg", "STATE1_P3">>, <<"reg", "MSG_P3">>>>>>,
       <<"=", "MSGTMP1_P1", <<"_mm_sha256msg1_epu32", <<"reg", "MSGTMP1_P1">>, <<"reg", "MSGTMP2_P1">>>>>>,
       <<"=", "MSGTMP1_P2", <<"_mm_sha256msg1_epu32", <<"reg", "MSGTMP1_P2">>, <<"reg", "MSGTMP2_P2">>>>>>,
       <<"=", "MSGTMP1_P3", <<"_mm_sha256msg1_epu32", <<"reg", "MSGTMP1_P3">>, <<"reg", "MSGTMP2_P3">>>>>> >>,
    \* rounds 12-15
    << <<"=", "MSG_P1", <<"reg", "HPAD1_CACHE">>>>,
       <<"=", "MSG_P2", <<"reg", "HPAD1_CACHE">>>>,
       <<"=", "MSG_P3", <<"reg", "HPAD1_CACHE">>>>,
       <<"=", "MSGTMP3_P1", <<"reg", "MSG_P1">>>>,
       <<"=", "MSGTMP3_P2", <<"reg", "MSG_P2">>>>,
       <<"=", "MSGTMP3_P3", <<"reg", "MSG_P3">>>>,
       <<"=", "MSG_P1", <<"_mm_add_epi32", <<"reg", "MSG_P1">>, <<"_mm_load_si128", <<"adr", "K64", 12>>>>>>>>,
       <<"=", "MSG_P2", <<"_mm_add_epi32", <<"reg", "MSG_P2">>, <<"_mm_load_si128", <<"adr", "K64", 12>>>>>>>>,
       <<"=", "MSG_P3", <<"_mm_add_epi32", <<"reg", "MSG_P3">>, <<"_mm_load_si128", <<"adr", "K64", 12>>>>>>>>,
       <<"=", "STATE1_P1", <<"_mm_sha256rnds2_epu32", <<"reg", "STATE1_P1">>, <<"reg", "STATE0_P1">>, <<"reg", "MSG_P1">>>>>>,
       <<"=", "STATE1_P2", <<"_mm_sha256rnds2_epu32", <<"reg", "STATE1_P2">>, <<"reg", "STATE0_P2">>, <<"reg", "MSG_P2">>>>>>,
       <<"=", "STATE1_P3", <<"_mm_sha256rnds2_epu32", <<"reg", "STATE1_P3">>, <<"reg", "STATE0_P3">>, <<"reg", "MSG_P3">>>>>>,
       <<"=", "MSGTMP0_P1", <<"_mm_add_epi32", <<"reg", "MSGTMP0_P1">>, <<"_mm_alignr_epi8", <<"reg", "MSGTMP3_P1">>, <<"reg", "MSGTMP2_P1">>, <<"imm", 4>>>>>>>>,
       <<"=", "MSGTMP0_P2", <<"_mm_add_epi32", <<"reg", "MSGTMP0_P2">>, <<"_mm_alignr_epi8", <<"reg", "MSGTMP3_P2">>, <<"reg", "MSGTMP2_P2">>, <<"imm", 4>>>>>>>>,
       <<"=", "MSGTMP0_P3", <<"_mm_add_epi32", <<"reg", "MSGTMP0_P3">>, <<"_mm_alignr_epi8", <<"reg", "MSGTMP3_P3">>, <<"reg", "MSGTMP2_P3">>, <<"imm", 4>>>>>>>>,
       <<"=", "MSGTMP0_P1", <<"_mm_sha256msg2_epu32", <<"reg", "MSGTMP0_P1">>, <<"reg", "MSGTMP3_P1">>>>>>,
       <<"=", "MSGTMP0_P2", <<"_mm_sha256msg2_epu32", <<"reg", "MSGTMP0_P2">>, <<"reg", "MSGTMP3_P2">>>>>>,
       <<"=", "MSGTMP0_P3", <<"_mm_sha256msg2_epu32", <<"reg", "MSGTMP0_P3">>, <<"reg", "MSGTMP3_P3">>>>>>,
       <<"=", "MSG_P1", <<"_mm_shuffle_epi32", <<"reg", "MSG_P1">>, <<"imm", 14>>>>>>,
       <<"=", "MSG_P2", <<"_mm_shuffle_epi32", <<"reg", "MSG_P2">>, <<"imm", 14>>>>>>,
       <<"=", "MSG_P3", <<"_mm_shuffle_epi32", <<"reg", "MSG_P3">>, <<"imm", 14>>>>>>,
       <<"=", "STATE0_P1", <<"_mm_sha256rnds2_epu32", <<"reg", "STATE0_P1">>, <<"reg", "STATE1_P1">>, <<"reg", "MSG_P1">>>>>>,
       <<"=", "STATE0_P2", <<"_mm_sha256rnds2_epu32", <<"reg", "STATE0_P2">>, <<"reg", "STATE1_P2">>, <<"reg", "MSG_P2">>>>>>,
       <<"=", "STATE0_P3", <<"_mm_sha256rnds2_epu32", <<"reg", "STATE0_P3">>, <<"reg", "STATE1_P3">>, <<"reg", "MSG_P3">>>>>>,
       <<"=", "MSGTMP2_P1", <<"_mm_sha256msg1_epu32", <<"reg", "MSGTMP2_P1">>, <<"reg", "MSGTMP3_P1">>>>>>,
       <<"=", "MSGTMP2_P2", <<"_mm_sha256msg1_epu32", <<"reg", "MSGTMP2_P2">>, <<"reg", "MSGTMP3_P2">>>>>>,
       <<"=", "MSGTMP2_P3", <<"_mm_sha256msg1_epu32", <<"reg", "MSGTMP2_P3">>, <<"reg", "MSGTMP3_P3">>>>>> >>,
    \* rounds 16-19, 20-23, 24-27, 28-31
    X64_SHA256ROUND_X3("MSG_P1", "MSGTMP0_P1", "MSGTMP1_P1", "MSGTMP2_P1", "MSGTMP3_P1", "STATE0_P1", "STATE1_P1",
                       "MSG_P2", "MSGTMP0_P2", "MSGTMP1_P2", "MSGTMP2_P2", "MSGTMP3_P2", "STATE0_P2", "STATE1_P2",
                       "MSG_P3", "MSGTMP0_P3", "MSGTMP1_P3", "MSGTMP2_P3", "MSGTMP3_P3", "STATE0_P3", "STATE1_P3",
                       <<"adr", "K64", 16>>),
    X64_SHA256ROUND_X3("MSG_P1", "MSGTMP1_P1", "MSGTMP2_P1", "MSGTMP3_P1", "MSGTMP0_P1", "STATE0_P1", "STATE1_P1",
                       "MSG_P2", "MSGTMP1_P2", "MSGTMP2_P2", "MSGTMP3_P2", "MSGTMP0_P2", "STATE0_P2", "STATE1_P2",
                       "MSG_P3", "MSGTMP1_P3", "MSGTMP2_P3", "MSGTMP3_P3", "MSGTMP0_P3", "STATE0_P3", "STATE1_P3",
                       <<"adr", "K64", 20>>),
    X64_SHA256ROUND_X3("MSG_P1", "MSGTMP2_P1", "MSGTMP3_P1", "MSGTMP0_P1", "MSGTMP1_P1", "STATE0_P1", "STATE1_P1",
                       "MSG_P2", "MSGTMP2_P2", "MSGTMP3_P2", "MSGTMP0_P2", "MSGTMP1_P2", "STATE0_P2", "STATE1_P2",
                       "MSG_P3", "MSGTMP2_P3", "MSGTMP3_P3", "MSGTMP0_P3", "MSGTMP1_P3", "STATE0_P3", "STATE1_P3",
                       <<"adr", "K64", 24>>),
    X64_SHA256ROUND_X3("MSG_P1", "MSGTMP3_P1", "MSGTMP0_P1", "MSGTMP1_P1", "MSGTMP2_P1", "STATE0_P1", "STATE1_P1",
                       "MSG_P2", "MSGTMP3_P2", "MSGTMP0_P2", "MSGTMP1_P2", "MSGTMP2_P2", "STATE0_P2", "STATE1_P2",
                       "MSG_P3", "MSGTMP3_P3", "MSGTMP0_P3", "MSGTMP1_P3", "MSGTMP2_P3", "STATE0_P3", "STATE1_P3",
                       <<"adr", "K64", 28>>),
    \* rounds 32-35, 36-39, 40-43, 44-47
    X64_SHA256ROUND_X3("MSG_P1", "MSGTMP0_P1", "MSGTMP1_P1", "MSGTMP2_P1", "MSGTMP3_P1", "STATE0_P1", "STATE1_P1",
                       "MSG_P2", "MSGTMP0_P2", "MSGTMP1_P2", "MSGTMP2_P2", "MSGTMP3_P2", "STATE0_P2", "STATE1_P2",
                       "MSG_P3", "MSGTMP0_P3", "MSGTMP1_P3", "MSGTMP2_P3", "MSGTMP3_P3", "STATE0_P3", "STATE1_P3",
                       <<"adr", "K64", 32>>),
    X64_SHA256ROUND_X3("MSG_P1", "MSGTMP1_P1", "MSGTMP2_P1", "MSGTMP3_P1", "MSGTMP0_P1", "STATE0_P1", "STATE1_P1",
                       "MSG_P2", "MSGTMP1_P2", "MSGTMP2_P2", "MSGTMP3_P2", "MSGTMP0_P2", "STATE0_P2", "STATE1_P2",
                       "MSG_P3", "MSGTMP1_P3", "MSGTMP2_P3", "MSGTMP3_P3", "MSGTMP0_P3", "STATE0_P3", "STATE1_P3",
                       <<"adr", "K64", 36>>),
    X64_SHA256ROUND_X3("MSG_P1", "MSGTMP2_P1", "MSGTMP3_P1", "MSGTMP0_P1", "MSGTMP1_P1", "STATE0_P1", "STATE1_P1",
                       "MSG_P2", "MSGTMP2_P2", "MSGTMP3_P2", "MSGTMP0_P2", "MSGTMP1_P2", "STATE0_P2", "STATE1_P2",
                       "MSG_P3", "MSGTMP2_P3", "MSGTMP3_P3", "MSGTMP0_P3", "MSGTMP1_P3", "STATE0_P3", "STATE1_P3",
                       <<"adr", "K64", 40>>),
    X64_SHA256ROUND_X3("MSG_P1", "MSGTMP3_P1", "MSGTMP0_P1", "MSGTMP1_P1", "MSGTMP2_P1", "STATE0_P1", "STATE1_P1",
                       "MSG_P2", "MSGTMP3_P2", "MSGTMP0_P2", "MSGTMP1_P2", "MSGTMP2_P2", "STATE0_P2", "STATE1_P2",
                       "MSG_P3", "MSGTMP3_P3", "MSGTMP0_P3", "MSGTMP1_P3", "MSGTMP2_P3", "STATE0_P3", "STATE1_P3",
                       <<"adr", "K64", 44>>),
    \* rounds 48-51
    X64_SHA256ROUND_X3("MSG_P1", "MSGTMP0_P1", "MSGTMP1_P1", "MSGTMP2_P1", "MSGTMP3_P1", "STATE0_P1", "STATE1_P1",
                       "MSG_P2", "MSGTMP0_P2", "MSGTMP1_P2", "MSGTMP2_P2", "MSGTMP3_P2", "STATE0_P2", "STATE1_P2",
                       "MSG_P3", "MSGTMP0_P3", "MSGTMP1_P3", "MSGTMP2_P3", "MSGTMP3_P3", "STATE0_P3", "STATE1_P3",
                       <<"adr", "K64", 48>>),
    \* rounds 52-55
    << <<"=", "MSG_P1", <<"reg", "MSGTMP1_P1">>>>,
       <<"=", "MSG_P2", <<"reg", "MSGTMP1_P2">>>>,
       <<"=", "MSG_P3", <<"reg", "MSGTMP1_P3">>>>,
       <<"=", "MSG_P1", <<"_mm_add_epi32", <<"reg", "MSG_P1">>, <<"_mm_load_si128", <<"adr", "K64", 52>>>>>>>>,
       <<"=", "MSG_P2", <<"_mm_add_epi32", <<"reg", "MSG_P2">>, <<"_mm_load_si128", <<"adr", "K64", 52>>>>>>>>,
       <<"=", "MSG_P3", <<"_mm_add_epi32", <<"reg", "MSG_P3">>, <<"_mm_load_si128", <<"adr", "K64", 52>>>>>>>>,
       <<"=", "STATE1_P1", <<"_mm_sha256rnds2_epu32", <<"reg", "STATE1_P1">>, <<"reg", "STATE0_P1">>, <<"reg", "MSG_P1">>>>>>,
       <<"=", "STATE1_P2", <<"_mm_sha256rnds2_epu32", <<"reg", "STATE1_P2">>, <<"reg", "STATE0_P2">>, <<"reg", "MSG_P2">>>>>>,
       <<"=", "STATE1_P3", <<"_mm_sha256rnds2_epu32", <<"reg", "STATE1_P3">>, <<"reg", "STATE0_P3">>, <<"reg", "MSG_P3">>>>>>,
       <<"=", "MSGTMP2_P1", <<"_mm_add_epi32", <<"reg", "MSGTMP2_P1">>, <<"_mm_alignr_epi8", <<"reg", "MSGTMP1_P1">>, <<"reg", "MSGTMP0_P1">>, <<"imm", 4>>>>>>>>,
       <<"=", "MSGTMP2_P2", <<"_mm_add_epi32", <<"reg", "MSGTMP2_P2">>, <<"_mm_alignr_epi8", <<"reg", "MSGTMP1_P2">>, <<"reg", "MSGTMP0_P2">>, <<"imm", 4>>>>>>>>,
       <<"=", "MSGTMP2_P3", <<"_mm_add_epi32", <<"reg", "MSGTMP2_P3">>, <<"_mm_alignr_epi8", <<"reg", "MSGTMP1_P3">>, <<"reg", "MSGTMP0_P3">>, <<"imm", 4>>>>>>>>,
       <<"=", "MSGTMP2_P1", <<"_mm_sha256msg2_epu32", <<"reg", "MSGTMP2_P1">>, <<"reg", "MSGTMP1_P1">>>>>>,
       <<"=", "MSGTMP2_P2", <<"_mm_sha256msg2_epu32", <<"reg", "MSGTMP2_P2">>, <<"reg", "MSGTMP1_P2">>>>>>,
       <<"=", "MSGTMP2_P3", <<"_mm_sha256msg2_epu32", <<"reg", "MSGTMP2_P3">>, <<"reg", "MSGTMP1_P3">>>>>>,
       <<"=", "MSG_P1", <<"_mm_shuffle_epi32", <<"reg", "MSG_P1">>, <<"imm", 14>>>>>>,
       <<"=", "MSG_P2", <<"_mm_shuffle_epi32", <<"reg", "MSG_P2">>, <<"imm", 14>>>>>>,
       <<"=", "MSG_P3", <<"_mm_shuffle_epi32", <<"reg", "MSG_P3">>, <<"imm", 14>>>>>>,
       <<"=", "STATE0_P1", <<"_mm_sha256rnds2_epu32", <<"reg", "STATE0_P1">>, <<"reg", "STATE1_P1">>, <<"reg", "MSG_P1">>>>>>,
       <<"=", "STATE0_P2", <<"_mm_sha256rnds2_epu32", <<"reg", "STATE0_P2">>, <<"reg", "STATE1_P2">>, <<"reg", "MSG_P2">>>>>>,
       <<"=", "STATE0_P3", <<"_mm_sha256rnds2_epu32", <<"reg", "STATE0_P3">>, <<"reg", "STATE1_P3">>, <<"reg", "MSG_P3">>>>>> >>,
    \* rounds 56-59
    << <<"=", "MSG_P1", <<"reg", "MSGTMP2_P1">>>>,
       <<"=", "MSG_P2", <<"reg", "MSGTMP2_P2">>>>,
       <<"=", "MSG_P3", <<"reg", "MSGTMP2_P3">>>>,
       <<"=", "MSG_P1", <<"_mm_add_epi32", <<"reg", "MSG_P1">>, <<"_mm_load_si128", <<"adr", "K64", 56>>>>>>>>,
       <<"=", "MSG_P2", <<"_mm_add_epi32", <<"reg", "MSG_P2">>, <<"_mm_load_si128", <<"adr", "K64", 56>>>>>>>>,
       <<"=", "MSG_P3", <<"_mm_add_epi32", <<"reg", "MSG_P3">>, <<"_mm_load_si128", <<"adr", "K64", 56>>>>>>>>,
       <<"=", "STATE1_P1", <<"_mm_sha256rnds2_epu32", <<"reg", "STATE1_P1">>, <<"reg", "STATE0_P1">>, <<"reg", "MSG_P1">>>>>>,
       <<"=", "STATE1_P2", <<"_mm_sha256rnds2_epu32", <<"reg", "STATE1_P2">>, <<"reg", "STATE0_P2">>, <<"reg", "MSG_P2">>>>>>,
       <<"=", "STATE1_P3", <<"_mm_sha256rnds2_epu32", <<"reg", "STATE1_P3">>, <<"reg", "STATE0_P3">>, <<"reg", "MSG_P3">>>>>>,
       <<"=", "MSGTMP3_P1", <<"_mm_add_epi32", <<"reg", "MSGTMP3_P1">>, <<"_mm_alignr_epi8", <<"reg", "MSGTMP2_P1">>, <<"reg", "MSGTMP1_P1">>, <<"imm", 4>>>>>>>>,
       <<"=", "MSGTMP3_P2", <<"_mm_add_epi32", <<"reg", "MSGTMP3_P2">>, <<"_mm_alignr_epi8", <<"reg", "MSGTMP2_P2">>, <<"reg", "MSGTMP1_P2">>, <<"imm", 4>>>>>>>>,
       <<"=", "MSGTMP3_P3", <<"_mm_add_epi32", <<"reg", "MSGTMP3_P3">>, <<"_mm_alignr_epi8", <<"reg", "MSGTMP2_P3">>, <<"reg", "MSGTMP1_P3">>, <<"imm", 4>>>>>>>>,
       <<"=", "MSGTMP3_P1", <<"_mm_sha256msg2_epu32", <<"reg", "MSGTMP3_P1">>, <<"reg", "MSGTMP2_P1">>>>>>,
       <<"=", "MSGTMP3_P2", <<"_mm_sha256msg2_epu32", <<"reg", "MSGTMP3_P2">>, <<"reg", "MSGTMP2_P2">>>>>>,
       <<"=", "MSGTMP3_P3", <<"_mm_sha256msg2_epu32", <<"reg", "MSGTMP3_P3">>, <<"reg", "MSGTMP2_P3">>>>>>,
       <<"=", "MSG_P1", <<"_mm_shuffle_epi32", <<"reg", "MSG_P1">>, <<"imm", 14>>>>>>,
       <<"=", "MSG_P2", <<"_mm_shuffle_epi32", <<"reg", "MSG_P2">>, <<"imm", 14>>>>>>,
       <<"=", "MSG_P3", <<"_mm_shuffle_epi32", <<"reg", "MSG_P3">>, <<"imm", 14>>>>>>,
       <<"=", "STATE0_P1", <<"_mm_sha256rnds2_epu32", <<"reg", "STATE0_P1">>, <<"reg", "STATE1_P1">>, <<"reg", "MSG_P1">>>>>>,
       <<"=", "STATE0_P2", <<"_mm_sha256rnds2_epu32", <<"reg", "STATE0_P2">>, <<"reg", "STATE1_P2">>, <<"reg", "MSG_P2">>>>>>,
       <<"=", "STATE0_P3", <<"_mm_sha256rnds2_epu32", <<"reg", "STATE0_P3">>, <<"reg", "STATE1_P3">>, <<"reg", "MSG_P3">>>>>> >>,
    \* rounds 60-63
    << <<"=", "MSG_P1", <<"reg", "MSGTMP3_P1">>>>,
       <<"=", "MSG_P2", <<"reg", "MSGTMP3_P2">>>>,
       <<"=", "MSG_P3", <<"reg", "MSGTMP3_P3">>>>,
       <<"=", "MSG_P1", <<"_mm_add_epi32", <<"reg", "MSG_P1">>, <<"_mm_load_si128", <<"adr", "K64", 60>>>>>>>>,
       <<"=", "MSG_P2", <<"_mm_add_epi32", <<"reg", "MSG_P2">>, <<"_mm_load_si128", <<"adr", "K64", 60>>>>>>>>,
       <<"=", "MSG_P3", <<"_mm_add_epi32", <<"reg", "MSG_P3">>, <<"_mm_load_si128", <<"adr", "K64", 60>>>>>>>>,
       <<"=", "STATE1_P1", <<"_mm_sha256rnds2_epu32", <<"reg", "STATE1_P1">>, <<"reg", "STATE0_P1">>, <<"reg", "MSG_P1">>>>>>,
       <<"=", "STATE1_P2", <<"_mm_sha256rnds2_epu32", <<"reg", "STATE1_P2">>, <<"reg", "STATE0_P2">>, <<"reg", "MSG_P2">>>>>>,
       <<"=", "STATE1_P3", <<"_mm_sha256rnds2_epu32", <<"reg", "STATE1_P3">>, <<"reg", "STATE0_P3">>, <<"reg", "MSG_P3">>>>>>,
       <<"=", "MSG_P1", <<"_mm_shuffle_epi32", <<"reg", "MSG_P1">>, <<"imm", 14>>>>>>,
       <<"=", "MSG_P2", <<"_mm_shuffle_epi32", <<"reg", "MSG_P2">>, <<"imm", 14>>>>>>,
       <<"=", "MSG_P3", <<"_mm_shuffle_epi32", <<"reg", "MSG_P3">>, <<"imm", 14>>>>>>,
       <<"=", "STATE0_P1", <<"_mm_sha256rnds2_epu32", <<"reg", "STATE0_P1">>, <<"reg", "STATE1_P1">>, <<"reg", "MSG_P1">>>>>>,
       <<"=", "STATE0_P2", <<"_mm_sha256rnds2_epu32", <<"reg", "STATE0_P2">>, <<"reg", "STATE1_P2">>, <<"reg", "MSG_P2">>>>>>,
       <<"=", "STATE0_P3", <<"_mm_sha256rnds2_epu32", <<"reg", "STATE0_P3">>, <<"reg", "STATE1_P3">>, <<"reg", "MSG_P3">>>>>> >>,
    \* add previous/init hash values to current state
    << <<"=", "STATE0_P1", <<"_mm_add_epi32", <<"reg", "STATE0_P1">>, <<"reg", "ABEF_INIT">>>>>>,
       <<"=", "STATE0_P2", <<"_mm_add_epi32", <<"reg", "STATE0_P2">>, <<"reg", "ABEF_INIT">>>>>>,
       <<"=", "STATE0_P3", <<"_mm_add_epi32", <<"reg", "STATE0_P3">>, <<"reg", "ABEF_INIT">>>>>>,
       <<"=", "STATE1_P1", <<"_mm_add_epi32", <<"reg", "STATE1_P1">>, <<"reg", "CDGH_INIT">>>>>>,
       <<"=", "STATE1_P2", <<"_mm_add_epi32", <<"reg", "STATE1_P2">>, <<"reg", "CDGH_INIT">>>>>>,
       <<"=", "STATE1_P3", <<"_mm_add_epi32", <<"reg", "STATE1_P3">>, <<"reg", "CDGH_INIT">>>>>> >>,
    \* reorder hash correctly, save for next iteration or final result
    << <<"=", "STATE0_P1", <<"_mm_shuffle_epi32", <<"reg", "STATE0_P1">>, <<"imm", 27>>>>>>,
       <<"=", "STATE1_P1", <<"_mm_shuffle_epi32", <<"reg", "STATE1_P1">>, <<"imm", 177>>>>>>,
       <<"=", "STATE0_P2", <<"_mm_shuffle_epi32", <<"reg", "STATE0_P2">>, <<"imm", 27>>>>>>,
       <<"=", "STATE1_P2", <<"_mm_shuffle_epi32", <<"reg", "STATE1_P2">>, <<"imm", 177>>>>>>,
       <<"=", "STATE0_P3", <<"_mm_shuffle_epi32", <<"reg", "STATE0_P3">>, <<"imm", 27>>>>>>,
       <<"=", "STATE1_P3", <<"_mm_shuffle_epi32", <<"reg", "STATE1_P3">>, <<"imm", 177>>>>>>,
       <<"=", "HASH0_SAVE_P1", <<"_mm_blend_epi16", <<"reg", "STATE0_P1">>, <<"reg", "STATE1_P1">>, <<"imm", 240>>>>>>,
       <<"=", "HASH1_SAVE_P1", <<"_mm_alignr_epi8", <<"reg", "STATE1_P1">>, <<"reg", "STATE0_P1">>, <<"imm", 8>>>>>>,
       <<"=", "HASH0_SAVE_P2", <<"_mm_blend_epi16", <<"reg", "STATE0_P2">>, <<"reg", "STATE1_P2">>, <<"imm", 240>>>>>>,
       <<"=", "HASH1_SAVE_P2", <<"_mm_alignr_epi8", <<"reg", "STATE1_P2">>, <<"reg", "STATE0_P2">>, <<"imm", 8>>>>>>,
       <<"=", "HASH0_SAVE_P3", <<"_mm_blend_epi16", <<"reg", "STATE0_P3">>, <<"reg", "STATE1_P3">>, <<"imm", 240>>>>>>,
       <<"=", "HASH1_SAVE_P3", <<"_mm_alignr_epi8", <<"reg", "STATE1_P3">>, <<"reg", "STATE0_P3">>, <<"imm", 8>>>>>> >>
  >>

\* the statements after the loop, block by block
rec_sha256_fast_x3_exit ==
  <<
    \* shuffle SHA Extensions hash value back to normal
    << <<"=", "HASH0_SAVE_P1", <<"_mm_shuffle_epi8", <<"reg", "HASH0_SAVE_P1">>, <<"reg", "SHUF_MASK">>>>>>,
       <<"=", "HASH1_SAVE_P1", <<"_mm_shuffle_epi8", <<"reg", "HASH1_SAVE_P1">>, <<"reg", "SHUF_MASK">>>>>>,
       <<"=", "HASH0_SAVE_P2", <<"_mm_shuffle_epi8", <<"reg", "HASH0_SAVE_P2">>, <<"reg", "SHUF_MASK">>>>>>,
       <<"=", "HASH1_SAVE_P2", <<"_mm_shuffle_epi8", <<"reg", "HASH1_SAVE_P2">>, <<"reg", "SHUF_MASK">>>>>>,
       <<"=", "HASH0_SAVE_P3", <<"_mm_shuffle_epi8", <<"reg", "HASH0_SAVE_P3">>, <<"reg", "SHUF_MASK">>>>>>,
       <<"=", "HASH1_SAVE_P3", <<"_mm_shuffle_epi8", <<"reg", "HASH1_SAVE_P3">>, <<"reg", "SHUF_MASK">>>>>> >>,
    \* copy/return final hash value into *hash
    << <<"store", <<"adr", "hash", 0>>, <<"reg", "HASH0_SAVE_P1">>>>,
       <<"store", <<"adr", "hash", 16>>, <<"reg", "HASH1_SAVE_P1">>>>,
       <<"store", <<"adr", "hash", 32>>, <<"reg", "HASH0_SAVE_P2">>>>,
       <<"store", <<"adr", "hash", 48>>, <<"reg", "HASH1_SAVE_P2">>>>,
       <<"store", <<"adr", "hash", 64>>, <<"reg", "HASH0_SAVE_P3">>>>,
       <<"store", <<"adr", "hash", 80>>, <<"reg", "HASH1_SAVE_P3">>>> >>
  >>

\* ----------------------------------------------------------------------
\* rec_sha256_fast_x4 (OPTIMIZE.md, lines 861-1265)

\* #define SHA256ROUND_X4
X64_SHA256ROUND_X4(msg_p1, msgtmp0_p1, msgtmp1_p1, msgtmp2_p1, msgtmp3_p1, state0_p1, state1_p1, msg_p2, msgtmp0_p2, msgtmp1_p2, msgtmp2_p2, msgtmp3_p2, state0_p2, state1_p2, msg_p3, msgtmp0_p3, msgtmp1_p3, msgtmp2_p3, msgtmp3_p3, state0_p3, state1_p3, msg_p4, msgtmp0_p4, msgtmp1_p4, msgtmp2_p4, msgtmp3_p4, state0_p4, state1_p4, kvalue) ==
  << <<"=", msg_p1, <<"reg", msgtmp0_p1>>>>,
     <<"=", msg_p2, <<"reg", msgtmp0_p2>>>>,
     <<"=", msg_p3, <<"reg", msgtmp0_p3>>>>,
     <<"=", msg_p4, <<"reg", msgtmp0_p4>>>>,
     <<"=", msg_p1, <<"_mm_add_epi32", <<"reg", msg_p1>>, <<"_mm_load_si128", kvalue>>>>>>,
     <<"=", msg_p2, <<"_mm_add_epi32", <<"reg", msg_p2>>, <<"_mm_load_si128", kvalue>>>>>>,
     <<"=", msg_p3, <<"_mm_add_epi32", <<"reg", msg_p3>>, <<"_mm_load_si128", kvalue>>>>>>,
     <<"=", msg_p4, <<"_mm_add_epi32", <<"reg", msg_p4>>, <<"_mm_load_si128", kvalue>>>>>>,
     <<"=", state1_p1, <<"_mm_sha256rnds2_epu32", <<"reg", state1_p1>>, <<"reg", state0_p1>>, <<"reg", msg_p1>>>>>>,
     <<"=", state1_p2, <<"_mm_sha256rnds2_epu32", <<"reg", state1_p2>>, <<"reg", state0_p2>>, <<"reg", msg_p2>>>>>>,
     <<"=", state1_p3, <<"_mm_sha256rnds2_epu32", <<"reg", state1_p3>>, <<"reg", state0_p3>>, <<"reg", msg_p3>>>>>>,
     <<"=", state1_p4, <<"_mm_sha256rnds2_epu32", <<"reg", state1_p4>>, <<"reg", state0_p4>>, <<"reg", msg_p4>>>>>>,
     <<"=", msgtmp1_p1, <<"_mm_add_epi32", <<"reg", msgtmp1_p1>>, <<"_mm_alignr_epi8", <<"reg", msgtmp0_p1>>, <<"reg", msgtmp3_p1>>, <<"imm", 4>>>>>>>>,
     <<"=", msgtmp1_p2, <<"_mm_add_epi32", <<"reg", msgtmp1_p2>>, <<"_mm_alignr_epi8", <<"reg", msgtmp0_p2>>, <<"reg", msgtmp3_p2>>, <<"imm", 4>>>>>>>>,
     <<"=", msgtmp1_p3, <<"_mm_add_epi32", <<"reg", msgtmp1_p3>>, <<"_mm_alignr_epi8", <<"reg", msgtmp0_p3>>, <<"reg", msgtmp3_p3>>, <<"imm", 4>>>>>>>>,
     <<"=", msgtmp1_p4, <<"_mm_add_epi32", <<"reg", msgtmp1_p4>>, <<"_mm_alignr_epi8", <<"reg", msgtmp0_p4>>, <<"reg", msgtmp3_p4>>, <<"imm", 4>>>>>>>>,
     <<"=", msgtmp1_p1, <<"_mm_sha256msg2_epu32", <<"reg", msgtmp1_p1>>, <<"reg", msgtmp0_p1>>>>>>,
     <<"=", msgtmp1_p2, <<"_mm_sha256msg2_epu32", <<"reg", msgtmp1_p2>>, <<"reg", msgtmp0_p2>>>>>>,
     <<"=", msgtmp1_p3, <<"_mm_sha256msg2_epu32", <<"reg", msgtmp1_p3>>, <<"reg", msgtmp0_p3>>>>>>,
     <<"=", msgtmp1_p4, <<"_mm_sha256msg2_epu32", <<"reg", msgtmp1_p4>>, <<"reg", msgtmp0_p4>>>>>>,
     <<"=", msg_p1, <<"_mm_shuffle_epi32", <<"reg", msg_p1>>, <<"imm", 14>>>>>>,
     <<"=", msg_p2, <<"_mm_shuffle_epi32", <<"reg", msg_p2>>, <<"imm", 14>>>>>>,
     <<"=", msg_p3, <<"_mm_shuffle_epi32", <<"reg", msg_p3>>, <<"imm", 14>>>>>>,
     <<"=", msg_p4, <<"_mm_shuffle_epi32", <<"reg", msg_p4>>, <<"imm", 14>>>>>>,
     <<"=", state0_p1, <<"_mm_sha256rnds2_epu32", <<"reg", state0_p1>>, <<"reg", state1_p1>>, <<"reg", msg_p1>>>>>>,
     <<"=", state0_p2, <<"_mm_sha256rnds2_epu32", <<"reg", state0_p2>>, <<"reg", state1_p2>>, <<"reg", msg_p2>>>>>>,
     <<"=", state0_p3, <<"_mm_sha256rnds2_epu32", <<"reg", state0_p3>>, <<"reg", state1_p3>>, <<"reg", msg_p3>>>>>>,
     <<"=", state0_p4, <<"_mm_sha256rnds2_epu32", <<"reg", state0_p4>>, <<"reg", state1_p4>>, <<"reg", msg_p4>>>>>>,
     <<"=", msgtmp3_p1, <<"_mm_sha256msg1_epu32", <<"reg", msgtmp3_p1>>, <<"reg", msgtmp0_p1>>>>>>,
     <<"=", msgtmp3_p2, <<"_mm_sha256msg1_epu32", <<"reg", msgtmp3_p2>>, <<"reg", msgtmp0_p2>>>>>>,
     <<"=", msgtmp3_p3, <<"_mm_sha256msg1_epu32", <<"reg", msgtmp3_p3>>, <<"reg", msgtmp0_p3>>>>>>,
     <<"=", msgtmp3_p4, <<"_mm_sha256msg1_epu32", <<"reg", msgtmp3_p4>>, <<"reg", msgtmp0_p4>>>>>> >>

\* the vector locals, all holding j
rec_sha256_fast_x4_locals(j) ==
  [SHUF_MASK |-> j, ABEF_INIT |-> j, CDGH_INIT |-> j, HPAD0_CACHE |-> j, HPAD1_CACHE |-> j,
   STATE0_P1 |-> j, STATE1_P1 |-> j, MSG_P1 |-> j, MSGTMP0_P1 |-> j, MSGTMP1_P1 |-> j,
   MSGTMP2_P1 |-> j, MSGTMP3_P1 |-> j, STATE0_P2 |-> j, STATE1_P2 |-> j, MSG_P2 |-> j,
   MSGTMP0_P2 |-> j, MSGTMP1_P2 |-> j, MSGTMP2_P2 |-> j, MSGTMP3_P2 |-> j, STATE0_P3 |-> j,
   STATE1_P3 |-> j, MSG_P3 |-> j, MSGTMP0_P3 |-> j, MSGTMP1_P3 |-> j, MSGTMP2_P3 |-> j,
   MSGTMP3_P3 |-> j, STATE0_P4 |-> j, STATE1_P4 |-> j, MSG_P4 |-> j, MSGTMP0_P4 |-> j,
   MSGTMP1_P4 |-> j, MSGTMP2_P4 |-> j, MSGTMP3_P4 |-> j, HASH0_SAVE_P1 |-> j, HASH1_SAVE_P1 |-> j,
   HASH0_SAVE_P2 |-> j, HASH1_SAVE_P2 |-> j, HASH0_SAVE_P3 |-> j, HASH1_SAVE_P3 |-> j,
   HASH0_SAVE_P4 |-> j, HASH1_SAVE_P4 |-> j]

\* the statements before the loop, block by block
rec_sha256_fast_x4_entry ==
  <<
    \* shuffle mask for byte order required by SHA Extensions
    << <<"=", "SHUF_MASK", <<"_mm_set_epi64x", <<"imm64", \h0C0D, \h0E0F, \h0809, \h0A0B>>, <<"imm64", \h0405, \h0607, \h0001, \h0203>>>>>> >>,
    \* pre-arranged/rotated init values for SHA256 rounds, 8x A-H logic
    << <<"=", "ABEF_INIT", <<"_mm_set_epi64x", <<"imm64", \h6A09, \hE667, \hBB67, \hAE85>>, <<"imm64", \h510E, \h527F, \h9B05, \h688C>>>>>>,
       <<"=", "CDGH_INIT", <<"_mm_set_epi64x", <<"imm64", \h3C6E, \hF372, \hA54F, \hF53A>>, <<"imm64", \h1F83, \hD9AB, \h5BE0, \hCD19>>>>>> >>,
    \* pre-arranged/rotated values for 3rd/4th 16bytes of 1x block, SHA256 padding logic
    << <<"=", "HPAD0_CACHE", <<"_mm_set_epi64x", <<"imm64", \h0000, \h0000, \h0000, \h0000>>, <<"imm64", \h0000, \h0000, \h8000, \h0000>>>>>>,
       <<"=", "HPAD1_CACHE", <<"_mm_set_epi64x", <<"imm64", \h0000, \h0100, \h0000, \h0000>>, <<"imm64", \h0000, \h0000, \h0000, \h0000>>>>>> >>,
    \* variables to init/keep hash value through SHA256 rounds
    << <<"=", "HASH0_SAVE_P1", <<"_mm_loadu_si128", <<"adr", "hash", 0>>>>>>,
       <<"=", "HASH1_SAVE_P1", <<"_mm_loadu_si128", <<"adr", "hash", 16>>>>>>,
       <<"=", "HASH0_SAVE_P2", <<"_mm_loadu_si128", <<"adr", "hash", 32>>>>>>,
       <<"=", "HASH1_SAVE_P2", <<"_mm_loadu_si128", <<"adr", "hash", 48>>>>>>,
       <<"=", "HASH0_SAVE_P3", <<"_mm_loadu_si128", <<"adr", "hash", 64>>>>>>,
       <<"=", "HASH1_SAVE_P3", <<"_mm_loadu_si128", <<"adr", "hash", 80>>>>>>,
       <<"=", "HASH0_SAVE_P4", <<"_mm_loadu_si128", <<"adr", "hash", 96>>>>>>,
       <<"=", "HASH1_SAVE_P4", <<"_mm_loadu_si128", <<"adr", "hash", 112>>>>>> >>,
    \* shuffle 32bytes hash/data given required by SHA Extensions
    << <<"=", "HASH0_SAVE_P1", <<"_mm_shuffle_epi8", <<"reg", "HASH0_SAVE_P1">>, <<"reg", "SHUF_MASK">>>>>>,
       <<"=", "HASH1_SAVE_P1", <<"_mm_shuffle_epi8", <<"reg", "HASH1_SAVE_P1">>, <<"reg", "SHUF_MASK">>>>>>,
       <<"=", "HASH0_SAVE_P2", <<"_mm_shuffle_epi8", <<"reg", "HASH0_SAVE_P2">>, <<"reg", "SHUF_MASK">>>>>>,
       <<"=", "HASH1_SAVE_P2", <<"_mm_shuffle_epi8", <<"reg", "HASH1_SAVE_P2">>, <<"reg", "SHUF_MASK">>>>>>,
       <<"=", "HASH0_SAVE_P3", <<"_mm_shuffle_epi8", <<"reg", "HASH0_SAVE_P3">>, <<"reg", "SHUF_MASK">>>>>>,
       <<"=", "HASH1_SAVE_P3", <<"_mm_shuffle_epi8", <<"reg", "HASH1_SAVE_P3">>, <<"reg", "SHUF_MASK">>>>>>,
       <<"=", "HASH0_SAVE_P4", <<"_mm_shuffle_epi8", <<"reg", "HASH0_SAVE_P4">>, <<"reg", "SHUF_MASK">>>>>>,
       <<"=", "HASH1_SAVE_P4", <<"_mm_shuffle_epi8", <<"reg", "HASH1_SAVE_P4">>, <<"reg", "SHUF_MASK">>>>>> >>
  >>

\* one pass of the loop, block by block
rec_sha256_fast_x4_loop ==
  <<
    \* init state values for SHA256 rounds
    << <<"=", "STATE0_P1", <<"reg", "ABEF_INIT">>>>,
       <<"=", "STATE1_P1", <<"reg", "CDGH_INIT">>>>,
       <<"=", "STATE0_P2", <<"reg", "ABEF_INIT">>>>,
       <<"=", "STATE1_P2", <<"reg", "CDGH_INIT">>>>,
       <<"=", "STATE0_P3", <<"reg", "ABEF_INIT">>>>,
       <<"=", "STATE1_P3", <<"reg", "CDGH_INIT">>>>,
       <<"=", "STATE0_P4", <<"reg", "ABEF_INIT">>>>,
       <<"=", "STATE1_P4", <<"reg", "CDGH_INIT">>>> >>,
    \* rounds 0-3
    << <<"=", "MSG_P1", <<"reg", "HASH0_SAVE_P1">>>>,
       <<"=", "MSG_P2", <<"reg", "HASH0_SAVE_P2">>>>,
       <<"=", "MSG_P3", <<"reg", "HASH0_SAVE_P3">>>>,
       <<"=", "MSG_P4", <<"reg", "HASH0_SAVE_P4">>>>,
       <<"=", "MSGTMP0_P1", <<"reg", "MSG_P1">>>>,
       <<"=", "MSGTMP0_P2", <<"reg", "MSG_P2">>>>,
       <<"=", "MSGTMP0_P3", <<"reg", "MSG_P3">>>>,
       <<"=", "MSGTMP0_P4", <<"reg", "MSG_P4">>>>,
       <<"=", "MSG_P1", <<"_mm_add_epi32", <<"reg", "MSG_P1">>, <<"_mm_load_si128", <<"adr", "K64", 0>>>>>>>>,
       <<"=", "MSG_P2", <<"_mm_add_epi32", <<"reg", "MSG_P2">>, <<"_mm_load_si128", <<"adr", "K64", 0>>>>>>>>,
       <<"=", "MSG_P3", <<"_mm_add_epi32", <<"reg", "MSG_P3">>, <<"_mm_load_si128", <<"adr", "K64", 0>>>>>>>>,
       <<"=", "MSG_P4", <<"_mm_add_epi32", <<"reg", "MSG_P4">>, <<"_mm_load_si128", <<"adr", "K64", 0>>>>>>>>,
       <<"=", "STATE1_P1", <<"_mm_sha256rnds2_epu32", <<"reg", "STATE1_P1">>, <<"reg", "STATE0_P1">>, <<"reg", "MSG_P1">>>>>>,
       <<"=", "STATE1_P2", <<"_mm_sha256rnds2_epu32", <<"reg", "STATE1_P2">>, <<"reg", "STATE0_P2">>, <<"reg", "MSG_P2">>>>>>,
       <<"=", "STATE1_P3", <<"_mm_sha256rnds2_epu32", <<"reg", "STATE1_P3">>, <<"reg", "STATE0_P3">>, <<"reg", "MSG_P3">>>>>>,
       <<"=", "STATE1_P4", <<"_mm_sha256rnds2_epu32", <<"reg", "STATE1_P4">>, <<"reg", "STATE0_P4">>, <<"reg", "MSG_P4">>>>>>,
       <<"=", "MSG_P1", <<"_mm_shuffle_epi32", <<"reg", "MSG_P1">>, <<"imm", 14>>>>>>,
       <<"=", "MSG_P2", <<"_mm_shuffle_epi32", <<"reg", "MSG_P2">>, <<"imm", 14>>>>>>,
       <<"=", "MSG_P3", <<"_mm_shuffle_epi32", <<"reg", "MSG_P3">>, <<"imm", 14>>>>>>,
       <<"=", "MSG_P4", <<"_mm_shuffle_epi32", <<"reg", "MSG_P4">>, <<"imm", 14>>>>>>,
       <<"=", "STATE0_P1", <<"_mm_sha256rnds2_epu32", <<"reg", "STATE0_P1">>, <<"reg", "STATE1_P1">>, <<"reg", "MSG_P1">>>>>>,
       <<"=", "STATE0_P2", <<"_mm_sha256rnds2_epu32", <<"reg", "STATE0_P2">>, <<"reg", "STATE1_P2">>, <<"reg", "MSG_P2">>>>>>,
       <<"=", "STATE0_P3", <<"_mm_sha256rnds2_epu32", <<"reg", "STATE0_P3">>, <<"reg", "STATE1_P3">>, <<"reg", "MSG_P3">>>>>>,
       <<"=", "STATE0_P4", <<"_mm_sha256rnds2_epu32", <<"reg", "STATE0_P4">>, <<"reg", "STATE1_P4">>, <<"reg", "MSG_P4">>>>>> >>,
    \* rounds 4-7
    << <<"=", "MSG_P1", <<"reg", "HASH1_SAVE_P1">>>>,
       <<"=", "MSG_P2", <<"reg", "HASH1_SAVE_P2">>>>,
       <<"=", "MSG_P3", <<"reg", "HASH1_SAVE_P3">>>>,
       <<"=", "MSG_P4", <<"reg", "HASH1_SAVE_P4">>>>,
       <<"=", "MSGTMP1_P1", <<"reg", "MSG_P1">>>>,
       <<"=", "MSGTMP1_P2", <<"reg", "MSG_P2">>>>,
       <<"=", "MSGTMP1_P3", <<"reg", "MSG_P3">>>>,
       <<"=", "MSGTMP1_P4", <<"reg", "MSG_P4">>>>,
       <<"=", "MSG_P1", <<"_mm_add_epi32", <<"reg", "MSG_P1">>, <<"_mm_load_si128", <<"adr", "K64", 4>>>>>>>>,
       <<"=", "MSG_P2", <<"_mm_add_epi32", <<"reg", "MSG_P2">>, <<"_mm_load_si128", <<"adr", "K64", 4>>>>>>>>,
       <<"=", "MSG_P3", <<"_mm_add_epi32", <<"reg", "MSG_P3">>, <<"_mm_load_si128", <<"adr", "K64", 4>>>>>>>>,
       <<"=", "MSG_P4", <<"_mm_add_epi32", <<"reg", "MSG_P4">>, <<"_mm_load_si128", <<"adr", "K64", 4>>>>>>>>,
       <<"=", "STATE1_P1", <<"_mm_sha256rnds2_epu32", <<"reg", "STATE1_P1">>, <<"reg", "STATE0_P1">>, <<"reg", "MSG_P1">>>>>>,
       <<"=", "STATE1_P2", <<"_mm_sha256rnds2_epu32", <<"reg", "STATE1_P2">>, <<"reg", "STATE0_P2">>, <<"reg", "MSG_P2">>>>>>,
       <<"=", "STATE1_P3", <<"_mm_sha256rnds2_epu32", <<"reg", "STATE1_P3">>, <<"reg", "STATE0_P3">>, <<"reg", "MSG_P3">>>>>>,
       <<"=", "STATE1_P4", <<"_mm_sha256rnds2_epu32", <<"reg", "STATE1_P4">>, <<"reg", "STATE0_P4">>, <<"reg", "MSG_P4">>>>>>,
       <<"=", "MSG_P1", <<"_mm_shuffle_epi32", <<"reg", "MSG_P1">>, <<"imm", 14>>>>>>,
       <<"=", "MSG_P2", <<"_mm_shuffle_epi32", <<"reg", "MSG_P2">>, <<"imm", 14>>>>>>,
       <<"=", "MSG_P3", <<"_mm_shuffle_epi32", <<"reg", "MSG_P3">>, <<"imm", 14>>>>>>,
       <<"=", "MSG_P4", <<"_mm_shuffle_epi32", <<"reg", "MSG_P4">>, <<"imm", 14>>>>>>,
       <<"=", "STATE0_P1", <<"_mm_sha256rnds2_epu32", <<"reg", "STATE0_P1">>, <<"reg", "STATE1_P1">>, <<"reg", "MSG_P1">>>>>>,
       <<"=", "STATE0_P2", <<"_mm_sha256rnds2_epu32", <<"reg", "STATE0_P2">>, <<"reg", "STATE1_P2">>, <<"reg", "MSG_P2">>>>>>,
       <<"=", "STATE0_P3", <<"_mm_sha256rnds2_epu32", <<"reg", "STATE0_P3">>, <<"reg", "STATE1_P3">>, <<"reg", "MSG_P3">>>>>>,
       <<"=", "STATE0_P4", <<"_mm_sha256rnds2_epu32", <<"reg", "STATE0_P4">>, <<"reg", "STATE1_P4">>, <<"reg", "MSG_P4">>>>>>,
       <<"=", "MSGTMP0_P1", <<"_mm_sha256msg1_epu32", <<"reg", "MSGTMP0_P1">>, <<"reg", "MSGTMP1_P1">>>>>>,
       <<"=", "MSGTMP0_P2", <<"_mm_sha256msg1_epu32", <<"reg", "MSGTMP0_P2">>, <<"reg", "MSGTMP1_P2">>>>>>,
       <<"=", "MSGTMP0_P3", <<"_mm_sha256msg1_epu32", <<"reg", "MSGTMP0_P3">>, <<"reg", "MSGTMP1_P3">>>>>>,
       <<"=", "MSGTMP0_P4", <<"_mm_sha256msg1_epu32", <<"reg", "MSGTMP0_P4">>, <<"reg", "MSGTMP1_P4">>>>>> >>,
    \* rounds 8-11
    << <<"=", "MSG_P1", <<"reg", "HPAD0_CACHE">>>>,
       <<"=", "MSG_P2", <<"reg", "HPAD0_CACHE">>>>,
       <<"=", "MSG_P3", <<"reg", "HPAD0_CACHE">>>>,
       <<"=", "MSG_P4", <<"reg", "HPAD0_CACHE">>>>,
       <<"=", "MSGTMP2_P1", <<"reg", "MSG_P1">>>>,
       <<"=", "MSGTMP2_P2", <<"reg", "MSG_P2">>>>,
       <<"=", "MSGTMP2_P3", <<"reg", "MSG_P3">>>>,
       <<"=", "MSGTMP2_P4", <<"reg", "MSG_P4">>>>,
       <<"=", "MSG_P1", <<"_mm_add_epi32", <<"reg", "MSG_P1">>, <<"_mm_load_si128", <<"adr", "K64", 8>>>>>>>>,
       <<"=", "MSG_P2", <<"_mm_add_epi32", <<"reg", "MSG_P2">>, <<"_mm_load_si128", <<"adr", "K64", 8>>>>>>>>,
       <<"=", "MSG_P3", <<"_mm_add_epi32", <<"reg", "MSG_P3">>, <<"_mm_load_si128", <<"adr", "K64", 8>>>>>>>>,
       <<"=", "MSG_P4", <<"_mm_add_epi32", <<"reg", "MSG_P4">>, <<"_mm_load_si128", <<"adr", "K64", 8>>>>>>>>,
       <<"=", "STATE1_P1", <<"_mm_sha256rnds2_epu32", <<"reg", "STATE1_P1">>, <<"reg", "STATE0_P1">>, <<"reg", "MSG_P1">>>>>>,
       <<"=", "STATE1_P2", <<"_mm_sha256rnds2_epu32", <<"reg", "STATE1_P2">>, <<"reg", "STATE0_P2">>, <<"reg", "MSG_P2">>>>>>,
       <<"=", "STATE1_P3", <<"_mm_sha256rnds2_epu32", <<"reg", "STATE1_P3">>, <<"reg", "STATE0_P3">>, <<"reg", "MSG_P3">>>>>>,
       <<"=", "STATE1_P4", <<"_mm_sha256rnds2_epu32", <<"reg", "STATE1_P4">>, <<"reg", "STATE0_P4">>, <<"reg", "MSG_P4">>>>>>,
       <<"=", "MSG_P1", <<"_mm_shuffle_epi32", <<"reg", "MSG_P1">>, <<"imm", 14>>>>>>,
       <<"=", "MSG_P2", <<"_mm_shuffle_epi32", <<"reg", "MSG_P2">>, <<"imm", 14>>>>>>,
       <<"=", "MSG_P3", <<"_mm_shuffle_epi32", <<"reg", "MSG_P3">>, <<"imm", 14>>>>>>,
       <<"=", "MSG_P4", <<"_mm_shuffle_epi32", <<"reg", "MSG_P4">>, <<"imm", 14>>>>>>,
       <<"=", "STATE0_P1", <<"_mm_sha256rnds2_epu32", <<"reg", "STATE0_P1">>, <<"reg", "STATE1_P1">>, <<"reg", "MSG_P1">>>>>>,
       <<"=", "STATE0_P2", <<"_mm_sha256rnds2_epu32", <<"reg", "STATE0_P2">>, <<"reg", "STATE1_P2">>, <<"reg", "MSG_P2">>>>>>,
       <<"=", "STATE0_P3", <<"_mm_sha256rnds2_epu32", <<"reg", "STATE0_P3">>, <<"reg", "STATE1_P3">>, <<"reg", "MSG_P3">>>>>>,
       <<"=", "STATE0_P4", <<"_mm_sha256rnds2_epu32", <<"reg", "STATE0_P4">>, <<"reg", "STATE1_P4">>, <<"reg", "MSG_P4">>>>>>,
       <<"=", "MSGTMP1_P1", <<"_mm_sha256msg1_epu32", <<"reg", "MSGTMP1_P1">>, <<"reg", "MSGTMP2_P1">>>>>>,
       <<"=", "MSGTMP1_P2", <<"_mm_sha256msg1_epu32", <<"reg", "MSGTMP1_P2">>, <<"reg", "MSGTMP2_P2">>>>>>,
       <<"=", "MSGTMP1_P3", <<"_mm_sha256msg1_epu32", <<"reg", "MSGTMP1_P3">>, <<"reg", "MSGTMP2_P3">>>>>>,
       <<"=", "MSGTMP1_P4", <<"_mm_sha256msg1_epu32", <<"reg", "MSGTMP1_P4">>, <<"reg", "MSGTMP2_P4">>>>>> >>,
    \* rounds 12-15
    << <<"=", "MSG_P1", <<"reg", "HPAD1_CACHE">>>>,
       <<"=", "MSG_P2", <<"reg", "HPAD1_CACHE">>>>,
       <<"=", "MSG_P3", <<"reg", "HPAD1_CACHE">>>>,
       <<"=", "MSG_P4", <<"reg", "HPAD1_CACHE">>>>,
       <<"=", "MSGTMP3_P1", <<"reg", "MSG_P1">>>>,
       <<"=", "MSGTMP3_P2", <<"reg", "MSG_P2">>>>,
       <<"=", "MSGTMP3_P3", <<"reg", "MSG_P3">>>>,
       <<"=", "MSGTMP3_P4", <<"reg", "MSG_P4">>>>,
       <<"=", "MSG_P1", <<"_mm_add_epi32", <<"reg", "MSG_P1">>, <<"_mm_load_si128", <<"adr", "K64", 12>>>>>>>>,
       <<"=", "MSG_P2", <<"_mm_add_epi32", <<"reg", "MSG_P2">>, <<"_mm_load_si128", <<"adr", "K64", 12>>>>>>>>,
       <<"=", "MSG_P3", <<"_mm_add_epi32", <<"reg", "MSG_P3">>, <<"_mm_load_si128", <<"adr", "K64", 12>>>>>>>>,
       <<"=", "MSG_P4", <<"_mm_add_epi32", <<"reg", "MSG_P4">>, <<"_mm_load_si128", <<"adr", "K64", 12>>>>>>>>,
       <<"=", "STATE1_P1", <<"_mm_sha256rnds2_epu32", <<"reg", "STATE1_P1">>, <<"reg", "STATE0_P1">>, <<"reg", "MSG_P1">>>>>>,
       <<"=", "STATE1_P2", <<"_mm_sha256rnds2_epu32", <<"reg", "STATE1_P2">>, <<"reg", "STATE0_P2">>, <<"reg", "MSG_P2">>>>>>,
       <<"=", "STATE1_P3", <<"_mm_sha256rnds2_epu32", <<"reg", "STATE1_P3">>, <<"reg", "STATE0_P3">>, <<"reg", "MSG_P3">>>>>>,
       <<"=", "STATE1_P4", <<"_mm_sha256rnds2_epu32", <<"reg", "STATE1_P4">>, <<"reg", "STATE0_P4">>, <<"reg", "MSG_P4">>>>>>,
       <<"=", "MSGTMP0_P1", <<"_mm_add_epi32", <<"reg", "MSGTMP0_P1">>, <<"_mm_alignr_epi8", <<"reg", "MSGTMP3_P1">>, <<"reg", "MSGTMP2_P1">>, <<"imm", 4>>>>>>>>,
       <<"=", "MSGTMP0_P2", <<"_mm_add_epi32", <<"reg", "MSGTMP0_P2">>, <<"_mm_alignr_epi8", <<"reg", "MSGTMP3_P2">>, <<"reg", "MSGTMP2_P2">>, <<"imm", 4>>>>>>>>,
       <<"=", "MSGTMP0_P3", <<"_mm_add_epi32", <<"reg", "MSGTMP0_P3">>, <<"_mm_alignr_epi8", <<"reg", "MSGTMP3_P3">>, <<"reg", "MSGTMP2_P3">>, <<"imm", 4>>>>>>>>,
       <<"=", "MSGTMP0_P4", <<"_mm_add_epi32", <<"reg", "MSGTMP0_P4">>, <<"_mm_alignr_epi8", <<"reg", "MSGTMP3_P4">>, <<"reg", "MSGTMP2_P4">>, <<"imm", 4>>>>>>>>,
       <<"=", "MSGTMP0_P1", <<"_mm_sha256msg2_epu32", <<"reg", "MSGTMP0_P1">>, <<"reg", "MSGTMP3_P1">>>>>>,
       <<"=", "MSGTMP0_P2", <<"_mm_sha256msg2_epu32", <<"reg", "MSGTMP0_P2">>, <<"reg", "MSGTMP3_P2">>>>>>,
       <<"=", "MSGTMP0_P3", <<"_mm_sha256msg2_epu32", <<"reg", "MSGTMP0_P3">>, <<"reg", "MSGTMP3_P3">>>>>>,
       <<"=", "MSGTMP0_P4", <<"_mm_sha256msg2_epu32", <<"reg", "MSGTMP0_P4">>, <<"reg", "MSGTMP3_P4">>>>>>,
       <<"=", "MSG_P1", <<"_mm_shuffle_epi32", <<"reg", "MSG_P1">>, <<"imm", 14>>>>>>,
       <<"=", "MSG_P2", <<"_mm_shuffle_epi32", <<"reg", "MSG_P2">>, <<"imm", 14>>>>>>,
       <<"=", "MSG_P3", <<"_mm_shuffle_epi32", <<"reg", "MSG_P3">>, <<"imm", 14>>>>>>,
       <<"=", "MSG_P4", <<"_mm_shuffle_epi32", <<"reg", "MSG_P4">>, <<"imm", 14>>>>>>,
       <<"=", "STATE0_P1", <<"_mm_sha256rnds2_epu32", <<"reg", "STATE0_P1">>, <<"reg", "STATE1_P1">>, <<"reg", "MSG_P1">>>>>>,
       <<"=", "STATE0_P2", <<"_mm_sha256rnds2_epu32", <<"reg", "STATE0_P2">>, <<"reg", "STATE1_P2">>, <<"reg", "MSG_P2">>>>>>,
       <<"=", "STATE0_P3", <<"_mm_sha256rnds2_epu32", <<"reg", "STATE0_P3">>, <<"reg", "STATE1_P3">>, <<"reg", "MSG_P3">>>>>>,
       <<"=", "STATE0_P4", <<"_mm_sha256rnds2_epu32", <<"reg", "STATE0_P4">>, <<"reg", "STATE1_P4">>, <<"reg", "MSG_P4">>>>>>,
       <<"=", "MSGTMP2_P1", <<"_mm_sha256msg1_epu32", <<"reg", "MSGTMP2_P1">>, <<"reg", "MSGTMP3_P1">>>>>>,
       <<"=", "MSGTMP2_P2", <<"_mm_sha256msg1_epu32", <<"reg", "MSGTMP2_P2">>, <<"reg", "MSGTMP3_P2">>>>>>,
       <<"=", "MSGTMP2_P3", <<"_mm_sha256msg1_epu32", <<"reg", "MSGTMP2_P3">>, <<"reg", "MSGTMP3_P3">>>>>>,
       <<"=", "MSGTMP2_P4", <<"_mm_sha256msg1_epu32", <<"reg", "MSGTMP2_P4">>, <<"reg", "MSGTMP3_P4">>>>>> >>,
    \* rounds 16-19, 20-23, 24-27, 28-31
    X64_SHA256ROUND_X4("MSG_P1", "MSGTMP0_P1", "MSGTMP1_P1", "MSGTMP2_P1", "MSGTMP3_P1", "STATE0_P1", "STATE1_P1",
                       "MSG_P2", "MSGTMP0_P2", "MSGTMP1_P2", "MSGTMP2_P2", "MSGTMP3_P2", "STATE0_P2", "STATE1_P2",
                       "MSG_P3", "MSGTMP0_P3", "MSGTMP1_P3", "MSGTMP2_P3", "MSGTMP3_P3", "STATE0_P3", "STATE1_P3",
                       "MSG_P4", "MSGTMP0_P4", "MSGTMP1_P4", "MSGTMP2_P4", "MSGTMP3_P4", "STATE0_P4", "STATE1_P4",
                       <<"adr", "K64", 16>>),
    X64_SHA256ROUND_X4("MSG_P1", "MSGTMP1_P1", "MSGTMP2_P1", "MSGTMP3_P1", "MSGTMP0_P1", "STATE0_P1", "STATE1_P1",
                       "MSG_P2", "MSGTMP1_P2", "MSGTMP2_P2", "MSGTMP3_P2", "MSGTMP0_P2", "STATE0_P2", "STATE1_P2",
                       "MSG_P3", "MSGTMP1_P3", "MSGTMP2_P3", "MSGTMP3_P3", "MSGTMP0_P3", "STATE0_P3", "STATE1_P3",
                       "MSG_P4", "MSGTMP1_P4", "MSGTMP2_P4", "MSGTMP3_P4", "MSGTMP0_P4", "STATE0_P4", "STATE1_P4",
                       <<"adr", "K64", 20>>),
    X64_SHA256ROUND_X4("MSG_P1", "MSGTMP2_P1", "MSGTMP3_P1", "MSGTMP0_P1", "MSGTMP1_P1", "STATE0_P1", "STATE1_P1",
                       "MSG_P2", "MSGTMP2_P2", "MSGTMP3_P2", "MSGTMP0_P2", "MSGTMP1_P2", "STATE0_P2", "STATE1_P2",
                       "MSG_P3", "MSGTMP2_P3", "MSGTMP3_P3", "MSGTMP0_P3", "MSGTMP1_P3", "STATE0_P3", "STATE1_P3",
                       "MSG_P4", "MSGTMP2_P4", "MSGTMP3_P4", "MSGTMP0_P4", "MSGTMP1_P4", "STATE0_P4", "STATE1_P4",
                       <<"adr", "K64", 24>>),
    X64_SHA256ROUND_X4("MSG_P1", "MSGTMP3_P1", "MSGTMP0_P1", "MSGTMP1_P1", "MSGTMP2_P1", "STATE0_P1", "STATE1_P1",
                       "MSG_P2", "MSGTMP3_P2", "MSGTMP0_P2", "MSGTMP1_P2", "MSGTMP2_P2", "STATE0_P2", "STATE1_P2",
                       "MSG_P3", "MSGTMP3_P3", "MSGTMP0_P3", "MSGTMP1_P3", "MSGTMP2_P3", "STATE0_P3", "STATE1_P3",
                       "MSG_P4", "MSGTMP3_P4", "MSGTMP0_P4", "MSGTMP1_P4", "MSGTMP2_P4", "STATE0_P4", "STATE1_P4",
                       <<"adr", "K64", 28>>),
    \* rounds 32-35, 36-39, 40-43, 44-47
    X64_SHA256ROUND_X4("MSG_P1", "MSGTMP0_P1", "MSGTMP1_P1", "MSGTMP2_P1", "MSGTMP3_P1", "STATE0_P1", "STATE1_P1",
                       "MSG_P2", "MSGTMP0_P2", "MSGTMP1_P2", "MSGTMP2_P2", "MSGTMP3_P2", "STATE0_P2", "STATE1_P2",
                       "MSG_P3", "MSGTMP0_P3", "MSGTMP1_P3", "MSGTMP2_P3", "MSGTMP3_P3", "STATE0_P3", "STATE1_P3",
                       "MSG_P4", "MSGTMP0_P4", "MSGTMP1_P4", "MSGTMP2_P4", "MSGTMP3_P4", "STATE0_P4", "STATE1_P4",
                       <<"adr", "K64", 32>>),
    X64_SHA256ROUND_X4("MSG_P1", "MSGTMP1_P1", "MSGTMP2_P1", "MSGTMP3_P1", "MSGTMP0_P1", "STATE0_P1", "STATE1_P1",
                       "MSG_P2", "MSGTMP1_P2", "MSGTMP2_P2", "MSGTMP3_P2", "MSGTMP0_P2", "STATE0_P2", "STATE1_P2",
                       "MSG_P3", "MSGTMP1_P3", "MSGTMP2_P3", "MSGTMP3_P3", "MSGTMP0_P3", "STATE0_P3", "STATE1_P3",
                       "MSG_P4", "MSGTMP1_P4", "MSGTMP2_P4", "MSGTMP3_P4", "MSGTMP0_P4", "STATE0_P4", "STATE1_P4",
                       <<"adr", "K64", 36>>),
    X64_SHA256ROUND_X4("MSG_P1", "MSGTMP2_P1", "MSGTMP3_P1", "MSGTMP0_P1", "MSGTMP1_P1", "STATE0_P1", "STATE1_P1",
                       "MSG_P2", "MSGTMP2_P2", "MSGTMP3_P2", "MSGTMP0_P2", "MSGTMP1_P2", "STATE0_P2", "STATE1_P2",
                       "MSG_P3", "MSGTMP2_P3", "MSGTMP3_P3", "MSGTMP0_P3", "MSGTMP1_P3", "STATE0_P3", "STATE1_P3",
                       "MSG_P4", "MSGTMP2_P4", "MSGTMP3_P4", "MSGTMP0_P4", "MSGTMP1_P4", "STATE0_P4", "STATE1_P4",
                       <<"adr", "K64", 40>>),
    X64_SHA256ROUND_X4("MSG_P1", "MSGTMP3_P1", "MSGTMP0_P1", "MSGTMP1_P1", "MSGTMP2_P1", "STATE0_P1", "STATE1_P1",
                       "MSG_P2", "MSGTMP3_P2", "MSGTMP0_P2", "MSGTMP1_P2", "MSGTMP2_P2", "STATE0_P2", "STATE1_P2",
                       "MSG_P3", "MSGTMP3_P3", "MSGTMP0_P3", "MSGTMP1_P3", "MSGTMP2_P3", "STATE0_P3", "STATE1_P3",
                       "MSG_P4", "MSGTMP3_P4", "MSGTMP0_P4", "MSGTMP1_P4", "MSGTMP2_P4", "STATE0_P4", "STATE1_P4",
                       <<"adr", "K64", 44>>),
    \* rounds 48-51
    X64_SHA256ROUND_X4("MSG_P1", "MSGTMP0_P1", "MSGTMP1_P1", "MSGTMP2_P1", "MSGTMP3_P1", "STATE0_P1", "STATE1_P1",
                       "MSG_P2", "MSGTMP0_P2", "MSGTMP1_P2", "MSGTMP2_P2", "MSGTMP3_P2", "STATE0_P2", "STATE1_P2",
                       "MSG_P3", "MSGTMP0_P3", "MSGTMP1_P3", "MSGTMP2_P3", "MSGTMP3_P3", "STATE0_P3", "STATE1_P3",
                       "MSG_P4", "MSGTMP0_P4", "MSGTMP1_P4", "MSGTMP2_P4", "MSGTMP3_P4", "STATE0_P4", "STATE1_P4",
                       <<"adr", "K64", 48>>),
    \* rounds 52-55
    << <<"=", "MSG_P1", <<"reg", "MSGTMP1_P1">>>>,
       <<"=", "MSG_P2", <<"reg", "MSGTMP1_P2">>>>,
       <<"=", "MSG_P3", <<"reg", "MSGTMP1_P3">>>>,
       <<"=", "MSG_P4", <<"reg", "MSGTMP1_P4">>>>,
       <<"=", "MSG_P1", <<"_mm_add_epi32", <<"reg", "MSG_P1">>, <<"_mm_load_si128", <<"adr", "K64", 52>>>>>>>>,
       <<"=", "MSG_P2", <<"_mm_add_epi32", <<"reg", "MSG_P2">>, <<"_mm_load_si128", <<"adr", "K64", 52>>>>>>>>,
       <<"=", "MSG_P3", <<"_mm_add_epi32", <<"reg", "MSG_P3">>, <<"_mm_load_si128", <<"adr", "K64", 52>>>>>>>>,
       <<"=", "MSG_P4", <<"_mm_add_epi32", <<"reg", "MSG_P4">>, <<"_mm_load_si128", <<"adr", "K64", 52>>>>>>>>,
       <<"=", "STATE1_P1", <<"_mm_sha256rnds2_epu32", <<"reg", "STATE1_P1">>, <<"reg", "STATE0_P1">>, <<"reg", "MSG_P1">>>>>>,
       <<"=", "STATE1_P2", <<"_mm_sha256rnds2_epu32", <<"reg", "STATE1_P2">>, <<"reg", "STATE0_P2">>, <<"reg", "MSG_P2">>>>>>,
       <<"=", "STATE1_P3", <<"_mm_sha256rnds2_epu32", <<"reg", "STATE1_P3">>, <<"reg", "STATE0_P3">>, <<"reg", "MSG_P3">>>>>>,
       <<"=", "STATE1_P4", <<"_mm_sha256rnds2_epu32", <<"reg", "STATE1_P4">>, <<"reg", "STATE0_P4">>, <<"reg", "MSG_P4">>>>>>,
       <<"=", "MSGTMP2_P1", <<"_mm_add_epi32", <<"reg", "MSGTMP2_P1">>, <<"_mm_alignr_epi8", <<"reg", "MSGTMP1_P1">>, <<"reg", "MSGTMP0_P1">>, <<"imm", 4>>>>>>>>,
       <<"=", "MSGTMP2_P2", <<"_mm_add_epi32", <<"reg", "MSGTMP2_P2">>, <<"_mm_alignr_epi8", <<"reg", "MSGTMP1_P2">>, <<"reg", "MSGTMP0_P2">>, <<"imm", 4>>>>>>>>,
       <<"=", "MSGTMP2_P3", <<"_mm_add_epi32", <<"reg", "MSGTMP2_P3">>, <<"_mm_alignr_epi8", <<"reg", "MSGTMP1_P3">>, <<"reg", "MSGTMP0_P3">>, <<"imm", 4>>>>>>>>,
       <<"=", "MSGTMP2_P4", <<"_mm_add_epi32", <<"reg", "MSGTMP2_P4">>, <<"_mm_alignr_epi8", <<"reg", "MSGTMP1_P4">>, <<"reg", "MSGTMP0_P4">>, <<"imm", 4>>>>>>>>,
       <<"=", "MSGTMP2_P1", <<"_mm_sha256msg2_epu32", <<"reg", "MSGTMP2_P1">>, <<"reg", "MSGTMP1_P1">>>>>>,
       <<"=", "MSGTMP2_P2", <<"_mm_sha256msg2_epu32", <<"reg", "MSGTMP2_P2">>, <<"reg", "MSGTMP1_P2">>>>>>,
       <<"=", "MSGTMP2_P3", <<"_mm_sha256msg2_epu32", <<"reg", "MSGTMP2_P3">>, <<"reg", "MSGTMP1_P3">>>>>>,
       <<"=", "MSGTMP2_P4", <<"_mm_sha256msg2_epu32", <<"reg", "MSGTMP2_P4">>, <<"reg", "MSGTMP1_P4">>>>>>,
       <<"=", "MSG_P1", <<"_mm_shuffle_epi32", <<"reg", "MSG_P1">>, <<"imm", 14>>>>>>,
       <<"=", "MSG_P2", <<"_mm_shuffle_epi32", <<"reg", "MSG_P2">>, <<"imm", 14>>>>>>,
       <<"=", "MSG_P3", <<"_mm_shuffle_epi32", <<"reg", "MSG_P3">>, <<"imm", 14>>>>>>,
       <<"=", "MSG_P4", <<"_mm_shuffle_epi32", <<"reg", "MSG_P4">>, <<"imm", 14>>>>>>,
       <<"=", "STATE0_P1", <<"_mm_sha256rnds2_epu32", <<"reg", "STATE0_P1">>, <<"reg", "STATE1_P1">>, <<"reg", "MSG_P1">>>>>>,
       <<"=", "STATE0_P2", <<"_mm_sha256rnds2_epu32", <<"reg", "STATE0_P2">>, <<"reg", "STATE1_P2">>, <<"reg", "MSG_P2">>>>>>,
       <<"=", "STATE0_P3", <<"_mm_sha256rnds2_epu32", <<"reg", "STATE0_P3">>, <<"reg", "STATE1_P3">>, <<"reg", "MSG_P3">>>>>>,
       <<"=", "STATE0_P4", <<"_mm_sha256rnds2_epu32", <<"reg", "STATE0_P4">>, <<"reg", "STATE1_P4">>, <<"reg", "MSG_P4">>>>>> >>,
    \* rounds 56-59
    << <<"=", "MSG_P1", <<"reg", "MSGTMP2_P1">>>>,
       <<"=", "MSG_P2", <<"reg", "MSGTMP2_P2">>>>,
       <<"=", "MSG_P3", <<"reg", "MSGTMP2_P3">>>>,
       <<"=", "MSG_P4", <<"reg", "MSGTMP2_P4">>>>,
       <<"=", "MSG_P1", <<"_mm_add_epi32", <<"reg", "MSG_P1">>, <<"_mm_load_si128", <<"adr", "K64", 56>>>>>>>>,
       <<"=", "MSG_P2", <<"_mm_add_epi32", <<"reg", "MSG_P2">>, <<"_mm_load_si128", <<"adr", "K64", 56>>>>>>>>,
       <<"=", "MSG_P3", <<"_mm_add_epi32", <<"reg", "MSG_P3">>, <<"_mm_load_si128", <<"adr", "K64", 56>>>>>>>>,
       <<"=", "MSG_P4", <<"_mm_add_epi32", <<"reg", "MSG_P4">>, <<"_mm_load_si128", <<"adr", "K64", 56>>>>>>>>,
       <<"=", "STATE1_P1", <<"_mm_sha256rnds2_epu32", <<"reg", "STATE1_P1">>, <<"reg", "STATE0_P1">>, <<"reg", "MSG_P1">>>>>>,
       <<"=", "STATE1_P2", <<"_mm_sha256rnds2_epu32", <<"reg", "STATE1_P2">>, <<"reg", "STATE0_P2">>, <<"reg", "MSG_P2">>>>>>,
       <<"=", "STATE1_P3", <<"_mm_sha256rnds2_epu32", <<"reg", "STATE1_P3">>, <<"reg", "STATE0_P3">>, <<"reg", "MSG_P3">>>>>>,
       <<"=", "STATE1_P4", <<"_mm_sha256rnds2_epu32", <<"reg", "STATE1_P4">>, <<"reg", "STATE0_P4">>, <<"reg", "MSG_P4">>>>>>,
       <<"=", "MSGTMP3_P1", <<"_mm_add_epi32", <<"reg", "MSGTMP3_P1">>, <<"_mm_alignr_epi8", <<"reg", "MSGTMP2_P1">>, <<"reg", "MSGTMP1_P1">>, <<"imm", 4>>>>>>>>,
       <<"=", "MSGTMP3_P2", <<"_mm_add_epi32", <<"reg", "MSGTMP3_P2">>, <<"_mm_alignr_epi8", <<"reg", "MSGTMP2_P2">>, <<"reg", "MSGTMP1_P2">>, <<"imm", 4>>>>>>>>,
       <<"=", "MSGTMP3_P3", <<"_mm_add_epi32", <<"reg", "MSGTMP3_P3">>, <<"_mm_alignr_epi8", <<"reg", "MSGTMP2_P3">>, <<"reg", "MSGTMP1_P3">>, <<"imm", 4>>>>>>>>,
       <<"=", "MSGTMP3_P4", <<"_mm_add_epi32", <<"reg", "MSGTMP3_P4">>, <<"_mm_alignr_epi8", <<"reg", "MSGTMP2_P4">>, <<"reg", "MSGTMP1_P4">>, <<"imm", 4>>>>>>>>,
       <<"=", "MSGTMP3_P1", <<"_mm_sha256msg2_epu32", <<"reg", "MSGTMP3_P1">>, <<"reg", "MSGTMP2_P1">>>>>>,
       <<"=", "MSGTMP3_P2", <<"_mm_sha256msg2_epu32", <<"reg", "MSGTMP3_P2">>, <<"reg", "MSGTMP2_P2">>>>>>,
       <<"=", "MSGTMP3_P3", <<"_mm_sha256msg2_epu32", <<"reg", "MSGTMP3_P3">>, <<"reg", "MSGTMP2_P3">>>>>>,
       <<"=", "MSGTMP3_P4", <<"_mm_sha256msg2_epu32", <<"reg", "MSGTMP3_P4">>, <<"reg", "MSGTMP2_P4">>>>>>,
       <<"=", "MSG_P1", <<"_mm_shuffle_epi32", <<"reg", "MSG_P1">>, <<"imm", 14>>>>>>,
       <<"=", "MSG_P2", <<"_mm_shuffle_epi32", <<"reg", "MSG_P2">>, <<"imm", 14>>>>>>,
       <<"=", "MSG_P3", <<"_mm_shuffle_epi32", <<"reg", "MSG_P3">>, <<"imm", 14>>>>>>,
       <<"=", "MSG_P4", <<"_mm_shuffle_epi32", <<"reg", "MSG_P4">>, <<"imm", 14>>>>>>,
       <<"=", "STATE0_P1", <<"_mm_sha256rnds2_epu32", <<"reg", "STATE0_P1">>, <<"reg", "STATE1_P1">>, <<"reg", "MSG_P1">>>>>>,
       <<"=", "STATE0_P2", <<"_mm_sha256rnds2_epu32", <<"reg", "STATE0_P2">>, <<"reg", "STATE1_P2">>, <<"reg", "MSG_P2">>>>>>,
       <<"=", "STATE0_P3", <<"_mm_sha256rnds2_epu32", <<"reg", "STATE0_P3">>, <<"reg", "STATE1_P3">>, <<"reg", "MSG_P3">>>>>>,
       <<"=", "STATE0_P4", <<"_mm_sha256rnds2_epu32", <<"reg", "STATE0_P4">>, <<"reg", "STATE1_P4">>, <<"reg", "MSG_P4">>>>>> >>,
    \* rounds 60-63
    << <<"=", "MSG_P1", <<"reg", "MSGTMP3_P1">>>>,
       <<"=", "MSG_P2", <<"reg", "MSGTMP3_P2">>>>,
       <<"=", "MSG_P3", <<"reg", "MSGTMP3_P3">>>>,
       <<"=", "MSG_P4", <<"reg", "MSGTMP3_P4">>>>,
       <<"=", "MSG_P1", <<"_mm_add_epi32", <<"reg", "MSG_P1">>, <<"_mm_load_si128", <<"adr", "K64", 60>>>>>>>>,
       <<"=", "MSG_P2", <<"_mm_add_epi32", <<"reg", "MSG_P2">>, <<"_mm_load_si128", <<"adr", "K64", 60>>>>>>>>,
       <<"=", "MSG_P3", <<"_mm_add_epi32", <<"reg", "MSG_P3">>, <<"_mm_load_si128", <<"adr", "K64", 60>>>>>>>>,
       <<"=", "MSG_P4", <<"_mm_add_epi32", <<"reg", "MSG_P4">>, <<"_mm_load_si128", <<"adr", "K64", 60>>>>>>>>,
       <<"=", "STATE1_P1", <<"_mm_sha256rnds2_epu32", <<"reg", "STATE1_P1">>, <<"reg", "STATE0_P1">>, <<"reg", "MSG_P1">>>>>>,
       <<"=", "STATE1_P2", <<"_mm_sha256rnds2_epu32", <<"reg", "STATE1_P2">>, <<"reg", "STATE0_P2">>, <<"reg", "MSG_P2">>>>>>,
       <<"=", "STATE1_P3", <<"_mm_sha256rnds2_epu32", <<"reg", "STATE1_P3">>, <<"reg", "STATE0_P3">>, <<"reg", "MSG_P3">>>>>>,
       <<"=", "STATE1_P4", <<"_mm_sha256rnds2_epu32", <<"reg", "STATE1_P4">>, <<"reg", "STATE0_P4">>, <<"reg", "MSG_P4">>>>>>,
       <<"=", "MSG_P1", <<"_mm_shuffle_epi32", <<"reg", "MSG_P1">>, <<"imm", 14>>>>>>,
       <<"=", "MSG_P2", <<"_mm_shuffle_epi32", <<"reg", "MSG_P2">>, <<"imm", 14>>>>>>,
       <<"=", "MSG_P3", <<"_mm_shuffle_epi32", <<"reg", "MSG_P3">>, <<"imm", 14>>>>>>,
       <<"=", "MSG_P4", <<"_mm_shuffle_epi32", <<"reg", "MSG_P4">>, <<"imm", 14>>>>>>,
       <<"=", "STATE0_P1", <<"_mm_sha256rnds2_epu32", <<"reg", "STATE0_P1">>, <<"reg", "STATE1_P1">>, <<"reg", "MSG_P1">>>>>>,
       <<"=", "STATE0_P2", <<"_mm_sha256rnds2_epu32", <<"reg", "STATE0_P2">>, <<"reg", "STATE1_P2">>, <<"reg", "MSG_P2">>>>>>,
       <<"=", "STATE0_P3", <<"_mm_sha256rnds2_epu32", <<"reg", "STATE0_P3">>, <<"reg", "STATE1_P3">>, <<"reg", "MSG_P3">>>>>>,
       <<"=", "STATE0_P4", <<"_mm_sha256rnds2_epu32", <<"reg", "STATE0_P4">>, <<"reg", "STATE1_P4">>, <<"reg", "MSG_P4">>>>>> >>,
    \* add previous/init hash values to current state
    << <<"=", "STATE0_P1", <<"_mm_add_epi32", <<"reg", "STATE0_P1">>, <<"reg", "ABEF_INIT">>>>>>,
       <<"=", "STATE0_P2", <<"_mm_add_epi32", <<"reg", "STATE0_P2">>, <<"reg", "ABEF_INIT">>>>>>,
       <<"=", "STATE0_P3", <<"_mm_add_epi32", <<"reg", "STATE0_P3">>, <<"reg", "ABEF_INIT">>>>>>,
       <<"=", "STATE0_P4", <<"_mm_add_epi32", <<"reg", "STATE0_P4">>, <<"reg", "ABEF_INIT">>>>>>,
       <<"=", "STATE1_P1", <<"_mm_add_epi32", <<"reg", "STATE1_P1">>, <<"reg", "CDGH_INIT">>>>>>,
       <<"=", "STATE1_P2", <<"_mm_add_epi32", <<"reg", "STATE1_P2">>, <<"reg", "CDGH_INIT">>>>>>,
       <<"=", "STATE1_P3", <<"_mm_add_epi32", <<"reg", "STATE1_P3">>, <<"reg", "CDGH_INIT">>>>>>,
       <<"=", "STATE1_P4", <<"_mm_add_epi32", <<"reg", "STATE1_P4">>, <<"reg", "CDGH_INIT">>>>>> >>,
    \* reorder hash correctly, save for next iteration or final result
    << <<"=", "STATE0_P1", <<"_mm_shuffle_epi32", <<"reg", "STATE0_P1">>, <<"imm", 27>>>>>>,
       <<"=", "STATE1_P1", <<"_mm_shuffle_epi32", <<"reg", "STATE1_P1">>, <<"imm", 177>>>>>>,
       <<"=", "STATE0_P2", <<"_mm_shuffle_epi32", <<"reg", "STATE0_P2">>, <<"imm", 27>>>>>>,
       <<"=", "STATE1_P2", <<"_mm_shuffle_epi32", <<"reg", "STATE1_P2">>, <<"imm", 177>>>>>>,
       <<"=", "STATE0_P3", <<"_mm_shuffle_epi32", <<"reg", "STATE0_P3">>, <<"imm", 27>>>>>>,
       <<"=", "STATE1_P3", <<"_mm_shuffle_epi32", <<"reg", "STATE1_P3">>, <<"imm", 177>>>>>>,
       <<"=", "STATE0_P4", <<"_mm_shuffle_epi32", <<"reg", "STATE0_P4">>, <<"imm", 27>>>>>>,
       <<"=", "STATE1_P4", <<"_mm_shuffle_epi32", <<"reg", "STATE1_P4">>, <<"imm", 177>>>>>>,
       <<"=", "HASH0_SAVE_P1", <<"_mm_blend_epi16", <<"reg", "STATE0_P1">>, <<"reg", "STATE1_P1">>, <<"imm", 240>>>>>>,
       <<"=", "HASH1_SAVE_P1", <<"_mm_alignr_epi8", <<"reg", "STATE1_P1">>, <<"reg", "STATE0_P1">>, <<"imm", 8>>>>>>,
       <<"=", "HASH0_SAVE_P2", <<"_mm_blend_epi16", <<"reg", "STATE0_P2">>, <<"reg", "STATE1_P2">>, <<"imm", 240>>>>>>,
       <<"=", "HASH1_SAVE_P2", <<"_mm_alignr_epi8", <<"reg", "STATE1_P2">>, <<"reg", "STATE0_P2">>, <<"imm", 8>>>>>>,
       <<"=", "HASH0_SAVE_P3", <<"_mm_blend_epi16", <<"reg", "STATE0_P3">>, <<"reg", "STATE1_P3">>, <<"imm", 240>>>>>>,
       <<"=", "HASH1_SAVE_P3", <<"_mm_alignr_epi8", <<"reg", "STATE1_P3">>, <<"reg", "STATE0_P3">>, <<"imm", 8>>>>>>,
       <<"=", "HASH0_SAVE_P4", <<"_mm_blend_epi16", <<"reg", "STATE0_P4">>, <<"reg", "STATE1_P4">>, <<"imm", 240>>>>>>,
       <<"=", "HASH1_SAVE_P4", <<"_mm_alignr_epi8", <<"reg", "STATE1_P4">>, <<"reg", "STATE0_P4">>, <<"imm", 8>>>>>> >>
  >>

\* the statements after the loop, block by block
rec_sha256_fast_x4_exit ==
  <<
    \* shuffle SHA Extensions hash value back to normal
    << <<"=", "HASH0_SAVE_P1", <<"_mm_shuffle_epi8", <<"reg", "HASH0_SAVE_P1">>, <<"reg", "SHUF_MASK">>>>>>,
       <<"=", "HASH1_SAVE_P1", <<"_mm_shuffle_epi8", <<"reg", "HASH1_SAVE_P1">>, <<"reg", "SHUF_MASK">>>>>>,
       <<"=", "HASH0_SAVE_P2", <<"_mm_shuffle_epi8", <<"reg", "HASH0_SAVE_P2">>, <<"reg", "SHUF_MASK">>>>>>,
       <<"=", "HASH1_SAVE_P2", <<"_mm_shuffle_epi8", <<"reg", "HASH1_SAVE_P2">>, <<"reg", "SHUF_MASK">>>>>>,
       <<"=", "HASH0_SAVE_P3", <<"_mm_shuffle_epi8", <<"reg", "HASH0_SAVE_P3">>, <<"reg", "SHUF_MASK">>>>>>,
       <<"=", "HASH1_SAVE_P3", <<"_mm_shuffle_epi8", <<"reg", "HASH1_SAVE_P3">>, <<"reg", "SHUF_MASK">>>>>>,
       <<"=", "HASH0_SAVE_P4", <<"_mm_shuffle_epi8", <<"reg", "HASH0_SAVE_P4">>, <<"reg", "SHUF_MASK">>>>>>,
       <<"=", "HASH1_SAVE_P4", <<"_mm_shuffle_epi8", <<"reg", "HASH1_SAVE_P4">>, <<"reg", "SHUF_MASK">>>>>> >>,
    \* copy/return final hash value into *hash
    << <<"store", <<"adr", "hash", 0>>, <<"reg", "HASH0_SAVE_P1">>>>,
       <<"store", <<"adr", "hash", 16>>, <<"reg", "HASH1_SAVE_P1">>>>,
       <<"store", <<"adr", "hash", 32>>, <<"reg", "HASH0_SAVE_P2">>>>,
       <<"store", <<"adr", "hash", 48>>, <<"reg", "HASH1_SAVE_P2">>>>,
       <<"store", <<"adr", "hash", 64>>, <<"reg", "HASH0_SAVE_P3">>>>,
       <<"store", <<"adr", "hash", 80>>, <<"reg", "HASH1_SAVE_P3">>>>,
       <<"store", <<"adr", "hash", 96>>, <<"reg", "HASH0_SAVE_P4">>>>,
       <<"store", <<"adr", "hash", 112>>, <<"reg", "HASH1_SAVE_P4">>>> >>
  >>

\* ----------------------------------------------------------------------
\* compress_digest (rsha256_ref_arm.cxx, lines 66-238)

\* the vector locals, all holding j
compress_digest_arm_locals(j) ==
  [STATE0 |-> j, STATE1 |-> j, STATEV |-> j, MSGV |-> j, MSGTMP0 |-> j, MSGTMP1 |-> j,
   MSGTMP2 |-> j, MSGTMP3 |-> j, ABCD_SAVE |-> j, EFGH_SAVE |-> j]

\* the statements of compress_digest, block by block
compress_digest_arm ==
  <<
    \* init state value for SHA256 rounds
    << <<"=", "STATE0", <<"vld1q_u32", <<"adr", "state", 0>>>>>>,
       <<"=", "STATE1", <<"vld1q_u32", <<"adr", "state", 4>>>>>> >>,
    \* save current state for usage later
    << <<"=", "ABCD_SAVE", <<"reg", "STATE0">>>>,
       <<"=", "EFGH_SAVE", <<"reg", "STATE1">>>> >>,
    \* init values with hash/data input
    << <<"=", "MSGTMP0", <<"vld1q_u32", <<"adr", "last", 0>>>>>>,
       <<"=", "MSGTMP1", <<"vld1q_u32", <<"adr", "last", 16>>>>>>,
       <<"=", "MSGTMP2", <<"vld1q_u32", <<"adr", "last", 32>>>>>>,
       <<"=", "MSGTMP3", <<"vld1q_u32", <<"adr", "last", 48>>>>>> >>,
    \* shuffle values bytes required by Cryptography Extensions
    << <<"=", "MSGTMP0", <<"vreinterpretq_u32_u8", <<"vrev32q_u8", <<"vreinterpretq_u8_u32", <<"reg", "MSGTMP0">>>>>>>>>>,
       <<"=", "MSGTMP1", <<"vreinterpretq_u32_u8", <<"vrev32q_u8", <<"vreinterpretq_u8_u32", <<"reg", "MSGTMP1">>>>>>>>>>,
       <<"=", "MSGTMP2", <<"vreinterpretq_u32_u8", <<"vrev32q_u8", <<"vreinterpretq_u8_u32", <<"reg", "MSGTMP2">>>>>>>>>>,
       <<"=", "MSGTMP3", <<"vreinterpretq_u32_u8", <<"vrev32q_u8", <<"vreinterpretq_u8_u32", <<"reg", "MSGTMP3">>>>>>>>>> >>,
    \* rounds 0-3
    << <<"=", "MSGV", <<"vaddq_u32", <<"reg", "MSGTMP0">>, <<"vld1q_u32", <<"adr", "K64", 0>>>>>>>>,
       <<"=", "STATEV", <<"reg", "STATE0">>>>,
       <<"=", "STATE0", <<"vsha256hq_u32", <<"reg", "STATE0">>, <<"reg", "STATE1">>, <<"reg", "MSGV">>>>>>,
       <<"=", "STATE1", <<"vsha256h2q_u32", <<"reg", "STATE1">>, <<"reg", "STATEV">>, <<"reg", "MSGV">>>>>>,
       <<"=", "MSGTMP0", <<"vsha256su0q_u32", <<"reg", "MSGTMP0">>, <<"reg", "MSGTMP1">>>>>> >>,
    \* rounds 4-7
    << <<"=", "MSGV", <<"vaddq_u32", <<"reg", "MSGTMP1">>, <<"vld1q_u32", <<"adr", "K64", 4>>>>>>>>,
       <<"=", "STATEV", <<"reg", "STATE0">>>>,
       <<"=", "STATE0", <<"vsha256hq_u32", <<"reg", "STATE0">>, <<"reg", "STATE1">>, <<"reg", "MSGV">>>>>>,
       <<"=", "STATE1", <<"vsha256h2q_u32", <<"reg", "STATE1">>, <<"reg", "STATEV">>, <<"reg", "MSGV">>>>>>,
       <<"=", "MSGTMP0", <<"vsha256su1q_u32", <<"reg", "MSGTMP0">>, <<"reg", "MSGTMP2">>, <<"reg", "MSGTMP3">>>>>>,
       <<"=", "MSGTMP1", <<"vsha256su0q_u32", <<"reg", "MSGTMP1">>, <<"reg", "MSGTMP2">>>>>> >>,
    \* rounds 8-11
    << <<"=", "MSGV", <<"vaddq_u32", <<"reg", "MSGTMP2">>, <<"vld1q_u32", <<"adr", "K64", 8>>>>>>>>,
       <<"=", "STATEV", <<"reg", "STATE0">>>>,
       <<"=", "STATE0", <<"vsha256hq_u32", <<"reg", "STATE0">>, <<"reg", "STATE1">>, <<"reg", "MSGV">>>>>>,
       <<"=", "STATE1", <<"vsha256h2q_u32", <<"reg", "STATE1">>, <<"reg", "STATEV">>, <<"reg", "MSGV">>>>>>,
       <<"=", "MSGTMP1", <<"vsha256su1q_u32", <<"reg", "MSGTMP1">>, <<"reg", "MSGTMP3">>, <<"reg", "MSGTMP0">>>>>>,
       <<"=", "MSGTMP2", <<"vsha256su0q_u32", <<"reg", "MSGTMP2">>, <<"reg", "MSGTMP3">>>>>> >>,
    \* rounds 12-15
    << <<"=", "MSGV", <<"vaddq_u32", <<"reg", "MSGTMP3">>, <<"vld1q_u32", <<"adr", "K64", 12>>>>>>>>,
       <<"=", "STATEV", <<"reg", "STATE0">>>>,
       <<"=", "STATE0", <<"vsha256hq_u32", <<"reg", "STATE0">>, <<"reg", "STATE1">>, <<"reg", "MSGV">>>>>>,
       <<"=", "STATE1", <<"vsha256h2q_u32", <<"reg", "STATE1">>, <<"reg", "STATEV">>, <<"reg", "MSGV">>>>>>,
       <<"=", "MSGTMP2", <<"vsha256su1q_u32", <<"reg", "MSGTMP2">>, <<"reg", "MSGTMP0">>, <<"reg", "MSGTMP1">>>>>>,
       <<"=", "MSGTMP3", <<"vsha256su0q_u32", <<"reg", "MSGTMP3">>, <<"reg", "MSGTMP0">>>>>> >>,
    \* rounds 16-19
    << <<"=", "MSGV", <<"vaddq_u32", <<"reg", "MSGTMP0">>, <<"vld1q_u32", <<"adr", "K64", 16>>>>>>>>,
       <<"=", "STATEV", <<"reg", "STATE0">>>>,
       <<"=", "STATE0", <<"vsha256hq_u32", <<"reg", "STATE0">>, <<"reg", "STATE1">>, <<"reg", "MSGV">>>>>>,
       <<"=", "STATE1", <<"vsha256h2q_u32", <<"reg", "STATE1">>, <<"reg", "STATEV">>, <<"reg", "MSGV">>>>>>,
       <<"=", "MSGTMP3", <<"vsha256su1q_u32", <<"reg", "MSGTMP3">>, <<"reg", "MSGTMP1">>, <<"reg", "MSGTMP2">>>>>>,
       <<"=", "MSGTMP0", <<"vsha256su0q_u32", <<"reg", "MSGTMP0">>, <<"reg", "MSGTMP1">>>>>> >>,
    \* rounds 20-23
    << <<"=", "MSGV", <<"vaddq_u32", <<"reg", "MSGTMP1">>, <<"vld1q_u32", <<"adr", "K64", 20>>>>>>>>,
       <<"=", "STATEV", <<"reg", "STATE0">>>>,
       <<"=", "STATE0", <<"vsha256hq_u32", <<"reg", "STATE0">>, <<"reg", "STATE1">>, <<"reg", "MSGV">>>>>>,
       <<"=", "STATE1", <<"vsha256h2q_u32", <<"reg", "STATE1">>, <<"reg", "STATEV">>, <<"reg", "MSGV">>>>>>,
       <<"=", "MSGTMP0", <<"vsha256su1q_u32", <<"reg", "MSGTMP0">>, <<"reg", "MSGTMP2">>, <<"reg", "MSGTMP3">>>>>>,
       <<"=", "MSGTMP1", <<"vsha256su0q_u32", <<"reg", "MSGTMP1">>, <<"reg", "MSGTMP2">>>>>> >>,
    \* rounds 24-27
    << <<"=", "MSGV", <<"vaddq_u32", <<"reg", "MSGTMP2">>, <<"vld1q_u32", <<"adr", "K64", 24>>>>>>>>,
       <<"=", "STATEV", <<"reg", "STATE0">>>>,
       <<"=", "STATE0", <<"vsha256hq_u32", <<"reg", "STATE0">>, <<"reg", "STATE1">>, <<"reg", "MSGV">>>>>>,
       <<"=", "STATE1", <<"vsha256h2q_u32", <<"reg", "STATE1">>, <<"reg", "STATEV">>, <<"reg", "MSGV">>>>>>,
       <<"=", "MSGTMP1", <<"vsha256su1q_u32", <<"reg", "MSGTMP1">>, <<"reg", "MSGTMP3">>, <<"reg", "MSGTMP0">>>>>>,
       <<"=", "MSGTMP2", <<"vsha256su0q_u32", <<"reg", "MSGTMP2">>, <<"reg", "MSGTMP3">>>>>> >>,
    \* rounds 28-31
    << <<"=", "MSGV", <<"vaddq_u32", <<"reg", "MSGTMP3">>, <<"vld1q_u32", <<"adr", "K64", 28>>>>>>>>,
       <<"=", "STATEV", <<"reg", "STATE0">>>>,
       <<"=", "STATE0", <<"vsha256hq_u32", <<"reg", "STATE0">>, <<"reg", "STATE1">>, <<"reg", "MSGV">>>>>>,
       <<"=", "STATE1", <<"vsha256h2q_u32", <<"reg", "STATE1">>, <<"reg", "STATEV">>, <<"reg", "MSGV">>>>>>,
       <<"=", "MSGTMP2", <<"vsha256su1q_u32", <<"reg", "MSGTMP2">>, <<"reg", "MSGTMP0">>, <<"reg", "MSGTMP1">>>>>>,
       <<"=", "MSGTMP3", <<"vsha256su0q_u32", <<"reg", "MSGTMP3">>, <<"reg", "MSGTMP0">>>>>> >>,
    \* rounds 32-35
    << <<"=", "MSGV", <<"vaddq_u32", <<"reg", "MSGTMP0">>, <<"vld1q_u32", <<"adr", "K64", 32>>>>>>>>,
       <<"=", "STATEV", <<"reg", "STATE0">>>>,
       <<"=", "STATE0", <<"vsha256hq_u32", <<"reg", "STATE0">>, <<"reg", "STATE1">>, <<"reg", "MSGV">>>>>>,
       <<"=", "STATE1", <<"vsha256h2q_u32", <<"reg", "STATE1">>, <<"reg", "STATEV">>, <<"reg", "MSGV">>>>>>,
       <<"=", "MSGTMP3", <<"vsha256su1q_u32", <<"reg", "MSGTMP3">>, <<"reg", "MSGTMP1">>, <<"reg", "MSGTMP2">>>>>>,
       <<"=", "MSGTMP0", <<"vsha256su0q_u32", <<"reg", "MSGTMP0">>, <<"reg", "MSGTMP1">>>>>> >>,
    \* rounds 36-39
    << <<"=", "MSGV", <<"vaddq_u32", <<"reg", "MSGTMP1">>, <<"vld1q_u32", <<"adr", "K64", 36>>>>>>>>,
       <<"=", "STATEV", <<"reg", "STATE0">>>>,
       <<"=", "STATE0", <<"vsha256hq_u32", <<"reg", "STATE0">>, <<"reg", "STATE1">>, <<"reg", "MSGV">>>>>>,
       <<"=", "STATE1", <<"vsha256h2q_u32", <<"reg", "STATE1">>, <<"reg", "STATEV">>, <<"reg", "MSGV">>>>>>,
       <<"=", "MSGTMP0", <<"vsha256su1q_u32", <<"reg", "MSGTMP0">>, <<"reg", "MSGTMP2">>, <<"reg", "MSGTMP3">>>>>>,
       <<"=", "MSGTMP1", <<"vsha256su0q_u32", <<"reg", "MSGTMP1">>, <<"reg", "MSGTMP2">>>>>> >>,
    \* rounds 40-43
    << <<"=", "MSGV", <<"vaddq_u32", <<"reg", "MSGTMP2">>, <<"vld1q_u32", <<"adr", "K64", 40>>>>>>>>,
       <<"=", "STATEV", <<"reg", "STATE0">>>>,
       <<"=", "STATE0", <<"vsha256hq_u32", <<"reg", "STATE0">>, <<"reg", "STATE1">>, <<"reg", "MSGV">>>>>>,
       <<"=", "STATE1", <<"vsha256h2q_u32", <<"reg", "STATE1">>, <<"reg", "STATEV">>, <<"reg", "MSGV">>>>>>,
       <<"=", "MSGTMP1", <<"vsha256su1q_u32", <<"reg", "MSGTMP1">>, <<"reg", "MSGTMP3">>, <<"reg", "MSGTMP0">>>>>>,
       <<"=", "MSGTMP2", <<"vsha256su0q_u32", <<"reg", "MSGTMP2">>, <<"reg", "MSGTMP3">>>>>> >>,
    \* rounds 44-47
    << <<"=", "MSGV", <<"vaddq_u32", <<"reg", "MSGTMP3">>, <<"vld1q_u32", <<"adr", "K64", 44>>>>>>>>,
       <<"=", "STATEV", <<"reg", "STATE0">>>>,
       <<"=", "STATE0", <<"vsha256hq_u32", <<"reg", "STATE0">>, <<"reg", "STATE1">>, <<"reg", "MSGV">>>>>>,
       <<"=", "STATE1", <<"vsha256h2q_u32", <<"reg", "STATE1">>, <<"reg", "STATEV">>, <<"reg", "MSGV">>>>>>,
       <<"=", "MSGTMP2", <<"vsha256su1q_u32", <<"reg", "MSGTMP2">>, <<"reg", "MSGTMP0">>, <<"reg", "MSGTMP1">>>>>>,
       <<"=", "MSGTMP3", <<"vsha256su0q_u32", <<"reg", "MSGTMP3">>, <<"reg", "MSGTMP0">>>>>> >>,
    \* rounds 48-51
    << <<"=", "MSGV", <<"vaddq_u32", <<"reg", "MSGTMP0">>, <<"vld1q_u32", <<"adr", "K64", 48>>>>>>>>,
       <<"=", "STATEV", <<"reg", "STATE0">>>>,
       <<"=", "STATE0", <<"vsha256hq_u32", <<"reg", "STATE0">>, <<"reg", "STATE1">>, <<"reg", "MSGV">>>>>>,
       <<"=", "STATE1", <<"vsha256h2q_u32", <<"reg", "STATE1">>, <<"reg", "STATEV">>, <<"reg", "MSGV">>>>>>,
       <<"=", "MSGTMP3", <<"vsha256su1q_u32", <<"reg", "MSGTMP3">>, <<"reg", "MSGTMP1">>, <<"reg", "MSGTMP2">>>>>> >>,
    \* rounds 52-55
    << <<"=", "MSGV", <<"vaddq_u32", <<"reg", "MSGTMP1">>, <<"vld1q_u32", <<"adr", "K64", 52>>>>>>>>,
       <<"=", "STATEV", <<"reg", "STATE0">>>>,
       <<"=", "STATE0", <<"vsha256hq_u32", <<"reg", "STATE0">>, <<"reg", "STATE1">>, <<"reg", "MSGV">>>>>>,
       <<"=", "STATE1", <<"vsha256h2q_u32", <<"reg", "STATE1">>, <<"reg", "STATEV">>, <<"reg", "MSGV">>>>>> >>,
    \* rounds 56-59
    << <<"=", "MSGV", <<"vaddq_u32", <<"reg", "MSGTMP2">>, <<"vld1q_u32", <<"adr", "K64", 56>>>>>>>>,
       <<"=", "STATEV", <<"reg", "STATE0">>>>,
       <<"=", "STATE0", <<"vsha256hq_u32", <<"reg", "STATE0">>, <<"reg", "STATE1">>, <<"reg", "MSGV">>>>>>,
       <<"=", "STATE1", <<"vsha256h2q_u32", <<"reg", "STATE1">>, <<"reg", "STATEV">>, <<"reg", "MSGV">>>>>> >>,
    \* rounds 60-63
    << <<"=", "MSGV", <<"vaddq_u32", <<"reg", "MSGTMP3">>, <<"vld1q_u32", <<"adr", "K64", 60>>>>>>>>,
       <<"=", "STATEV", <<"reg", "STATE0">>>>,
       <<"=", "STATE0", <<"vsha256hq_u32", <<"reg", "STATE0">>, <<"reg", "STATE1">>, <<"reg", "MSGV">>>>>>,
       <<"=", "STATE1", <<"vsha256h2q_u32", <<"reg", "STATE1">>, <<"reg", "STATEV">>, <<"reg", "MSGV">>>>>> >>,
    \* add init state to current state
    << <<"=", "STATE0", <<"vaddq_u32", <<"reg", "STATE0">>, <<"reg", "ABCD_SAVE">>>>>>,
       <<"=", "STATE1", <<"vaddq_u32", <<"reg", "STATE1">>, <<"reg", "EFGH_SAVE">>>>>> >>,
    \* save state for next iteration or final result
    << <<"store", <<"adr", "state", 0>>, <<"reg", "STATE0">>>>,
       <<"store", <<"adr", "state", 4>>, <<"reg", "STATE1">>>> >>
  >>

\* ----------------------------------------------------------------------
\* rsha256_fast (part_001, lines 86-232)

\* #define SHA256ROUND
ARM_SHA256ROUND(msgv, msgtmp0, msgtmp1, msgtmp2, msgtmp3, statev, state0, state1, kvalue) ==
  << <<"=", msgv, <<"vaddq_u32", <<"reg", msgtmp0>>, <<"vld1q_u32", kvalue>>>>>>,
     <<"=", statev, <<"reg", state0>>>>,
     <<"=", state0, <<"vsha256hq_u32", <<"reg", state0>>, <<"reg", state1>>, <<"reg", msgv>>>>>>,
     <<"=", state1, <<"vsha256h2q_u32", <<"reg", state1>>, <<"reg", statev>>, <<"reg", msgv>>>>>>,
     <<"=", msgtmp3, <<"vsha256su1q_u32", <<"reg", msgtmp3>>, <<"reg", msgtmp1>>, <<"reg", msgtmp2>>>>>>,
     <<"=", msgtmp0, <<"vsha256su0q_u32", <<"reg", msgtmp0>>, <<"reg", msgtmp1>>>>>> >>

\* the vector locals, all holding j
rsha256_fast_locals(j) ==
  [ABCD_INIT |-> j, EFGH_INIT |-> j, HPAD0_CACHE |-> j, HPAD1_CACHE |-> j, STATE0 |-> j,
   STATE1 |-> j, STATEV |-> j, MSGV |-> j, MSGTMP0 |-> j, MSGTMP1 |-> j, MSGTMP2 |-> j,
   MSGTMP3 |-> j, HASH0_SAVE |-> j, HASH1_SAVE |-> j]

\* the statements before the loop, block by block
rsha256_fast_entry ==
  <<
    \* init values for SHA256 rounds, A-H logic
    << <<"=", "ABCD_INIT", <<"vld1q_u32", <<"adr", "abcdinit", 0>>>>>>,
       <<"=", "EFGH_INIT", <<"vld1q_u32", <<"adr", "efghinit", 0>>>>>> >>,
    \* pre-arranged values for 3rd/4th 16bytes of 1x block, SHA256 padding logic
    << <<"=", "HPAD0_CACHE", <<"vld1q_u32", <<"adr", "hpad0cache", 0>>>>>>,
       <<"=", "HPAD1_CACHE", <<"vld1q_u32", <<"adr", "hpad1cache", 0>>>>>> >>,
    \* variables to init/keep hash value through SHA256 rounds
    << <<"=", "HASH0_SAVE", <<"vld1q_u32", <<"adr", "hash", 0>>>>>>,
       <<"=", "HASH1_SAVE", <<"vld1q_u32", <<"adr", "hash", 16>>>>>> >>,
    \* shuffle hash bytes required by Cryptography Extensions
    << <<"=", "HASH0_SAVE", <<"vreinterpretq_u32_u8", <<"vrev32q_u8", <<"vreinterpretq_u8_u32", <<"reg", "HASH0_SAVE">>>>>>>>>>,
       <<"=", "HASH1_SAVE", <<"vreinterpretq_u32_u8", <<"vrev32q_u8", <<"vreinterpretq_u8_u32", <<"reg", "HASH1_SAVE">>>>>>>>>> >>
  >>

\* one pass of the loop without MSGTMP0 = vsha256su0q_u32(HASH0_SAVE,HASH1_SAVE) in rounds 0-3
rsha256_fast_loop_NoSu0 ==
  <<
    \* init state value for SHA256 rounds
    << <<"=", "STATE0", <<"reg", "ABCD_INIT">>>>,
       <<"=", "STATE1", <<"reg", "EFGH_INIT">>>> >>,
    \* rounds 0-3
    << <<"=", "MSGV", <<"vaddq_u32", <<"reg", "HASH0_SAVE">>, <<"vld1q_u32", <<"adr", "K64", 0>>>>>>>>,
       <<"=", "STATEV", <<"reg", "STATE0">>>>,
       <<"=", "STATE0", <<"vsha256hq_u32", <<"reg", "STATE0">>, <<"reg", "STATE1">>, <<"reg", "MSGV">>>>>>,
       <<"=", "STATE1", <<"vsha256h2q_u32", <<"reg", "STATE1">>, <<"reg", "STATEV">>, <<"reg", "MSGV">>>>>> >>,
    \* rounds 4-7
    << <<"=", "MSGV", <<"vaddq_u32", <<"reg", "HASH1_SAVE">>, <<"vld1q_u32", <<"adr", "K64", 4>>>>>>>>,
       <<"=", "STATEV", <<"reg", "STATE0">>>>,
       <<"=", "STATE0", <<"vsha256hq_u32", <<"reg", "STATE0">>, <<"reg", "STATE1">>, <<"reg", "MSGV">>>>>>,
       <<"=", "STATE1", <<"vsha256h2q_u32", <<"reg", "STATE1">>, <<"reg", "STATEV">>, <<"reg", "MSGV">>>>>>,
       <<"=", "MSGTMP0", <<"vsha256su1q_u32", <<"reg", "MSGTMP0">>, <<"reg", "HPAD0_CACHE">>, <<"reg", "HPAD1_CACHE">>>>>>,
       <<"=", "MSGTMP1", <<"vsha256su0q_u32", <<"reg", "HASH1_SAVE">>, <<"reg", "HPAD0_CACHE">>>>>> >>,
    \* rounds 8-11
    << <<"=", "MSGV", <<"vaddq_u32", <<"reg", "HPAD0_CACHE">>, <<"vld1q_u32", <<"adr", "K64", 8>>>>>>>>,
       <<"=", "STATEV", <<"reg", "STATE0">>>>,
       <<"=", "STATE0", <<"vsha256hq_u32", <<"reg", "STATE0">>, <<"reg", "STATE1">>, <<"reg", "MSGV">>>>>>,
       <<"=", "STATE1", <<"vsha256h2q_u32", <<"reg", "STATE1">>, <<"reg", "STATEV">>, <<"reg", "MSGV">>>>>>,
       <<"=", "MSGTMP1", <<"vsha256su1q_u32", <<"reg", "MSGTMP1">>, <<"reg", "HPAD1_CACHE">>, <<"reg", "MSGTMP0">>>>>>,
       <<"=", "MSGTMP2", <<"reg", "HPAD0_CACHE">>>> >>,
    \* rounds 12-15
    << <<"=", "MSGV", <<"vaddq_u32", <<"reg", "HPAD1_CACHE">>, <<"vld1q_u32", <<"adr", "K64", 12>>>>>>>>,
       <<"=", "STATEV", <<"reg", "STATE0">>>>,
       <<"=", "STATE0", <<"vsha256hq_u32", <<"reg", "STATE0">>, <<"reg", "STATE1">>, <<"reg", "MSGV">>>>>>,
       <<"=", "STATE1", <<"vsha256h2q_u32", <<"reg", "STATE1">>, <<"reg", "STATEV">>, <<"reg", "MSGV">>>>>>,
       <<"=", "MSGTMP2", <<"vsha256su1q_u32", <<"reg", "MSGTMP2">>, <<"reg", "MSGTMP0">>, <<"reg", "MSGTMP1">>>>>>,
       <<"=", "MSGTMP3", <<"vsha256su0q_u32", <<"reg", "HPAD1_CACHE">>, <<"reg", "MSGTMP0">>>>>> >>,
    \* rounds 16-19, 20-23, 24-27, 28-31
    ARM_SHA256ROUND("MSGV", "MSGTMP0", "MSGTMP1", "MSGTMP2", "MSGTMP3", "STATEV", "STATE0", "STATE1",
                    <<"adr", "K64", 16>>),
    ARM_SHA256ROUND("MSGV", "MSGTMP1", "MSGTMP2", "MSGTMP3", "MSGTMP0", "STATEV", "STATE0", "STATE1",
                    <<"adr", "K64", 20>>),
    ARM_SHA256ROUND("MSGV", "MSGTMP2", "MSGTMP3", "MSGTMP0", "MSGTMP1", "STATEV", "STATE0", "STATE1",
                    <<"adr", "K64", 24>>),
    ARM_SHA256ROUND("MSGV", "MSGTMP3", "MSGTMP0", "MSGTMP1", "MSGTMP2", "STATEV", "STATE0", "STATE1",
                    <<"adr", "K64", 28>>),
    \* rounds 32-35, 36-39, 40-43, 44-47
    ARM_SHA256ROUND("MSGV", "MSGTMP0", "MSGTMP1", "MSGTMP2", "MSGTMP3", "STATEV", "STATE0", "STATE1",
                    <<"adr", "K64", 32>>),
    ARM_SHA256ROUND("MSGV", "MSGTMP1", "MSGTMP2", "MSGTMP3", "MSGTMP0", "STATEV", "STATE0", "STATE1",
                    <<"adr", "K64", 36>>),
    ARM_SHA256ROUND("MSGV", "MSGTMP2", "MSGTMP3", "MSGTMP0", "MSGTMP1", "STATEV", "STATE0", "STATE1",
                    <<"adr", "K64", 40>>),
    ARM_SHA256ROUND("MSGV", "MSGTMP3", "MSGTMP0", "MSGTMP1", "MSGTMP2", "STATEV", "STATE0", "STATE1",
                    <<"adr", "K64", 44>>),
    \* rounds 48-51
    << <<"=", "MSGV", <<"vaddq_u32", <<"reg", "MSGTMP0">>, <<"vld1q_u32", <<"adr", "K64", 48>>>>>>>>,
       <<"=", "STATEV", <<"reg", "STATE0">>>>,
       <<"=", "STATE0", <<"vsha256hq_u32", <<"reg", "STATE0">>, <<"reg", "STATE1">>, <<"reg", "MSGV">>>>>>,
       <<"=", "STATE1", <<"vsha256h2q_u32", <<"reg", "STATE1">>, <<"reg", "STATEV">>, <<"reg", "MSGV">>>>>>,
       <<"=", "MSGTMP3", <<"vsha256su1q_u32", <<"reg", "MSGTMP3">>, <<"reg", "MSGTMP1">>, <<"reg", "MSGTMP2">>>>>> >>,
    \* rounds 52-55
    << <<"=", "MSGV", <<"vaddq_u32", <<"reg", "MSGTMP1">>, <<"vld1q_u32", <<"adr", "K64", 52>>>>>>>>,
       <<"=", "STATEV", <<"reg", "STATE0">>>>,
       <<"=", "STATE0", <<"vsha256hq_u32", <<"reg", "STATE0">>, <<"reg", "STATE1">>, <<"reg", "MSGV">>>>>>,
       <<"=", "STATE1", <<"vsha256h2q_u32", <<"reg", "STATE1">>, <<"reg", "STATEV">>, <<"reg", "MSGV">>>>>> >>,
    \* rounds 56-59
    << <<"=", "MSGV", <<"vaddq_u32", <<"reg", "MSGTMP2">>, <<"vld1q_u32", <<"adr", "K64", 56>>>>>>>>,
       <<"=", "STATEV", <<"reg", "STATE0">>>>,
       <<"=", "STATE0", <<"vsha256hq_u32", <<"reg", "STATE0">>, <<"reg", "STATE1">>, <<"reg", "MSGV">>>>>>,
       <<"=", "STATE1", <<"vsha256h2q_u32", <<"reg", "STATE1">>, <<"reg", "STATEV">>, <<"reg", "MSGV">>>>>> >>,
    \* rounds 60-63
    << <<"=", "MSGV", <<"vaddq_u32", <<"reg", "MSGTMP3">>, <<"vld1q_u32", <<"adr", "K64", 60>>>>>>>>,
       <<"=", "STATEV", <<"reg", "STATE0">>>>,
       <<"=", "STATE0", <<"vsha256hq_u32", <<"reg", "STATE0">>, <<"reg", "STATE1">>, <<"reg", "MSGV">>>>>>,
       <<"=", "STATE1", <<"vsha256h2q_u32", <<"reg", "STATE1">>, <<"reg", "STATEV">>, <<"reg", "MSGV">>>>>> >>,
    \* add init state to current state
    << <<"=", "HASH0_SAVE", <<"vaddq_u32", <<"reg", "STATE0">>, <<"reg", "ABCD_INIT">>>>>>,
       <<"=", "HASH1_SAVE", <<"vaddq_u32", <<"reg", "STATE1">>, <<"reg", "EFGH_INIT">>>>>> >>
  >>

\* one pass of the loop, block by block
rsha256_fast_loop ==
  <<
    \* init state value for SHA256 rounds
    << <<"=", "STATE0", <<"reg", "ABCD_INIT">>>>,
       <<"=", "STATE1", <<"reg", "EFGH_INIT">>>> >>,
    \* rounds 0-3
    << <<"=", "MSGV", <<"vaddq_u32", <<"reg", "HASH0_SAVE">>, <<"vld1q_u32", <<"adr", "K64", 0>>>>>>>>,
       <<"=", "STATEV", <<"reg", "STATE0">>>>,
       <<"=", "STATE0", <<"vsha256hq_u32", <<"reg", "STATE0">>, <<"reg", "STATE1">>, <<"reg", "MSGV">>>>>>,
       <<"=", "STATE1", <<"vsha256h2q_u32", <<"reg", "STATE1">>, <<"reg", "STATEV">>, <<"reg", "MSGV">>>>>>,
       <<"=", "MSGTMP0", <<"vsha256su0q_u32", <<"reg", "HASH0_SAVE">>, <<"reg", "HASH1_SAVE">>>>>> >>,
    \* rounds 4-7
    << <<"=", "MSGV", <<"vaddq_u32", <<"reg", "HASH1_SAVE">>, <<"vld1q_u32", <<"adr", "K64", 4>>>>>>>>,
       <<"=", "STATEV", <<"reg", "STATE0">>>>,
       <<"=", "STATE0", <<"vsha256hq_u32", <<"reg", "STATE0">>, <<"reg", "STATE1">>, <<"reg", "MSGV">>>>>>,
       <<"=", "STATE1", <<"vsha256h2q_u32", <<"reg", "STATE1">>, <<"reg", "STATEV">>, <<"reg", "MSGV">>>>>>,
       <<"=", "MSGTMP0", <<"vsha256su1q_u32", <<"reg", "MSGTMP0">>, <<"reg", "HPAD0_CACHE">>, <<"reg", "HPAD1_CACHE">>>>>>,
       <<"=", "MSGTMP1", <<"vsha256su0q_u32", <<"reg", "HASH1_SAVE">>, <<"reg", "HPAD0_CACHE">>>>>> >>,
    \* rounds 8-11
    << <<"=", "MSGV", <<"vaddq_u32", <<"reg", "HPAD0_CACHE">>, <<"vld1q_u32", <<"adr", "K64", 8>>>>>>>>,
       <<"=", "STATEV", <<"reg", "STATE0">>>>,
       <<"=", "STATE0", <<"vsha256hq_u32", <<"reg", "STATE0">>, <<"reg", "STATE1">>, <<"reg", "MSGV">>>>>>,
       <<"=", "STATE1", <<"vsha256h2q_u32", <<"reg", "STATE1">>, <<"reg", "STATEV">>, <<"reg", "MSGV">>>>>>,
       <<"=", "MSGTMP1", <<"vsha256su1q_u32", <<"reg", "MSGTMP1">>, <<"reg", "HPAD1_CACHE">>, <<"reg", "MSGTMP0">>>>>>,
       <<"=", "MSGTMP2", <<"reg", "HPAD0_CACHE">>>> >>,
    \* rounds 12-15
    << <<"=", "MSGV", <<"vaddq_u32", <<"reg", "HPAD1_CACHE">>, <<"vld1q_u32", <<"adr", "K64", 12>>>>>>>>,
       <<"=", "STATEV", <<"reg", "STATE0">>>>,
       <<"=", "STATE0", <<"vsha256hq_u32", <<"reg", "STATE0">>, <<"reg", "STATE1">>, <<"reg", "MSGV">>>>>>,
       <<"=", "STATE1", <<"vsha256h2q_u32", <<"reg", "STATE1">>, <<"reg", "STATEV">>, <<"reg", "MSGV">>>>>>,
       <<"=", "MSGTMP2", <<"vsha256su1q_u32", <<"reg", "MSGTMP2">>, <<"reg", "MSGTMP0">>, <<"reg", "MSGTMP1">>>>>>,
       <<"=", "MSGTMP3", <<"vsha256su0q_u32", <<"reg", "HPAD1_CACHE">>, <<"reg", "MSGTMP0">>>>>> >>,
    \* rounds 16-19, 20-23, 24-27, 28-31
    ARM_SHA256ROUND("MSGV", "MSGTMP0", "MSGTMP1", "MSGTMP2", "MSGTMP3", "STATEV", "STATE0", "STATE1",
                    <<"adr", "K64", 16>>),
    ARM_SHA256ROUND("MSGV", "MSGTMP1", "MSGTMP2", "MSGTMP3", "MSGTMP0", "STATEV", "STATE0", "STATE1",
                    <<"adr", "K64", 20>>),
    ARM_SHA256ROUND("MSGV", "MSGTMP2", "MSGTMP3", "MSGTMP0", "MSGTMP1", "STATEV", "STATE0", "STATE1",
                    <<"adr", "K64", 24>>),
    ARM_SHA256ROUND("MSGV", "MSGTMP3", "MSGTMP0", "MSGTMP1", "MSGTMP2", "STATEV", "STATE0", "STATE1",
                    <<"adr", "K64", 28>>),
    \* rounds 32-35, 36-39, 40-43, 44-47
    ARM_SHA256ROUND("MSGV", "MSGTMP0", "MSGTMP1", "MSGTMP2", "MSGTMP3", "STATEV", "STATE0", "STATE1",
                    <<"adr", "K64", 32>>),
    ARM_SHA256ROUND("MSGV", "MSGTMP1", "MSGTMP2", "MSGTMP3", "MSGTMP0", "STATEV", "STATE0", "STATE1",
                    <<"adr", "K64", 36>>),
    ARM_SHA256ROUND("MSGV", "MSGTMP2", "MSGTMP3", "MSGTMP0", "MSGTMP1", "STATEV", "STATE0", "STATE1",
                    <<"adr", "K64", 40>>),
    ARM_SHA256ROUND("MSGV", "MSGTMP3", "MSGTMP0", "MSGTMP1", "MSGTMP2", "STATEV", "STATE0", "STATE1",
                    <<"adr", "K64", 44>>),
    \* rounds 48-51
    << <<"=", "MSGV", <<"vaddq_u32", <<"reg", "MSGTMP0">>, <<"vld1q_u32", <<"adr", "K64", 48>>>>>>>>,
       <<"=", "STATEV", <<"reg", "STATE0">>>>,
       <<"=", "STATE0", <<"vsha256hq_u32", <<"reg", "STATE0">>, <<"reg", "STATE1">>, <<"reg", "MSGV">>>>>>,
       <<"=", "STATE1", <<"vsha256h2q_u32", <<"reg", "STATE1">>, <<"reg", "STATEV">>, <<"reg", "MSGV">>>>>>,
       <<"=", "MSGTMP3", <<"vsha256su1q_u32", <<"reg", "MSGTMP3">>, <<"reg", "MSGTMP1">>, <<"reg", "MSGTMP2">>>>>> >>,
    \* rounds 52-55
    << <<"=", "MSGV", <<"vaddq_u32", <<"reg", "MSGTMP1">>, <<"vld1q_u32", <<"adr", "K64", 52>>>>>>>>,
       <<"=", "STATEV", <<"reg", "STATE0">>>>,
       <<"=", "STATE0", <<"vsha256hq_u32", <<"reg", "STATE0">>, <<"reg", "STATE1">>, <<"reg", "MSGV">>>>>>,
       <<"=", "STATE1", <<"vsha256h2q_u32", <<"reg", "STATE1">>, <<"reg", "STATEV">>, <<"reg", "MSGV">>>>>> >>,
    \* rounds 56-59
    << <<"=", "MSGV", <<"vaddq_u32", <<"reg", "MSGTMP2">>, <<"vld1q_u32", <<"adr", "K64", 56>>>>>>>>,
       <<"=", "STATEV", <<"reg", "STATE0">>>>,
       <<"=", "STATE0", <<"vsha256hq_u32", <<"reg", "STATE0">>, <<"reg", "STATE1">>, <<"reg", "MSGV">>>>>>,
       <<"=", "STATE1", <<"vsha256h2q_u32", <<"reg", "STATE1">>, <<"reg", "STATEV">>, <<"reg", "MSGV">>>>>> >>,
    \* rounds 60-63
    << <<"=", "MSGV", <<"vaddq_u32", <<"reg", "MSGTMP3">>, <<"vld1q_u32", <<"adr", "K64", 60>>>>>>>>,
       <<"=", "STATEV", <<"reg", "STATE0">>>>,
       <<"=", "STATE0", <<"vsha256hq_u32", <<"reg", "STATE0">>, <<"reg", "STATE1">>, <<"reg", "MSGV">>>>>>,
       <<"=", "STATE1", <<"vsha256h2q_u32", <<"reg", "STATE1">>, <<"reg", "STATEV">>, <<"reg", "MSGV">>>>>> >>,
    \* add init state to current state
    << <<"=", "HASH0_SAVE", <<"vaddq_u32", <<"reg", "STATE0">>, <<"reg", "ABCD_INIT">>>>>>,
       <<"=", "HASH1_SAVE", <<"vaddq_u32", <<"reg", "STATE1">>, <<"reg", "EFGH_INIT">>>>>> >>
  >>

\* the statements after the loop, block by block
rsha256_fast_exit ==
  <<
    \* shuffle Cryptography Extensions hash value back
    << <<"=", "HASH0_SAVE", <<"vreinterpretq_u32_u8", <<"vrev32q_u8", <<"vreinterpretq_u8_u32", <<"reg", "HASH0_SAVE">>>>>>>>>>,
       <<"=", "HASH1_SAVE", <<"vreinterpretq_u32_u8", <<"vrev32q_u8", <<"vreinterpretq_u8_u32", <<"reg", "HASH1_SAVE">>>>>>>>>> >>,
    \* copy/return final hash value into *hash
    << <<"store", <<"adr", "hash", 0>>, <<"reg", "HASH0_SAVE">>>>,
       <<"store", <<"adr", "hash", 16>>, <<"reg", "HASH1_SAVE">>>> >>
  >>

\* ----------------------------------------------------------------------
\* rsha256_fast_x1 (rsha256pl_fast_arm.cxx, lines 31-170)

\* #define SHA256ROUND_X1
ARM_SHA256ROUND_X1(msgv_p1, msgtmp0_p1, msgtmp1_p1, msgtmp2_p1, msgtmp3_p1, statev_p1, state0_p1, state1_p1, kvalue) ==
  << <<"=", msgv_p1, <<"vaddq_u32", <<"reg", msgtmp0_p1>>, <<"vld1q_u32", kvalue>>>>>>,
     <<"=", statev_p1, <<"reg", state0_p1>>>>,
     <<"=", state0_p1, <<"vsha256hq_u32", <<"reg", state0_p1>>, <<"reg", state1_p1>>, <<"reg", msgv_p1>>>>>>,
     <<"=", state1_p1, <<"vsha256h2q_u32", <<"reg", state1_p1>>, <<"reg", statev_p1>>, <<"reg", msgv_p1>>>>>>,
     <<"=", msgtmp3_p1, <<"vsha256su1q_u32", <<"reg", msgtmp3_p1>>, <<"reg", msgtmp1_p1>>, <<"reg", msgtmp2_p1>>>>>>,
     <<"=", msgtmp0_p1, <<"vsha256su0q_u32", <<"reg", msgtmp0_p1>>, <<"reg", msgtmp1_p1>>>>>> >>

\* the vector locals, all holding j
rsha256_fast_x1_locals(j) ==
  [ABCD_INIT |-> j, EFGH_INIT |-> j, HPAD0_CACHE |-> j, HPAD1_CACHE |-> j, STATE0_P1 |-> j,
   STATE1_P1 |-> j, STATEV_P1 |-> j, MSGV_P1 |-> j, MSGTMP0_P1 |-> j, MSGTMP1_P1 |-> j,
   MSGTMP2_P1 |-> j, MSGTMP3_P1 |-> j, HASH0_SAVE_P1 |-> j, HASH1_SAVE_P1 |-> j]

\* the statements before the loop, block by block
rsha256_fast_x1_entry ==
  <<
    \* init values for SHA256 rounds, A-H logic
    << <<"=", "ABCD_INIT", <<"vld1q_u32", <<"adr", "abcdinit", 0>>>>>>,
       <<"=", "EFGH_INIT", <<"vld1q_u32", <<"adr", "efghinit", 0>>>>>> >>,
    \* pre-arranged values for 3rd/4th 16bytes of 1x block, SHA256 padding logic
    << <<"=", "HPAD0_CACHE", <<"vld1q_u32", <<"adr", "hpad0cache", 0>>>>>>,
       <<"=", "HPAD1_CACHE", <<"vld1q_u32", <<"adr", "hpad1cache", 0>>>>>> >>,
    \* variables to init/keep hash value through SHA256 rounds
    << <<"=", "HASH0_SAVE_P1", <<"vld1q_u32", <<"adr", "hash", 0>>>>>>,
       <<"=", "HASH1_SAVE_P1", <<"vld1q_u32", <<"adr", "hash", 16>>>>>> >>,
    \* shuffle hash bytes required by Cryptography Extensions
    << <<"=", "HASH0_SAVE_P1", <<"vreinterpretq_u32_u8", <<"vrev32q_u8", <<"vreinterpretq_u8_u32", <<"reg", "HASH0_SAVE_P1">>>>>>>>>>,
       <<"=", "HASH1_SAVE_P1", <<"vreinterpretq_u32_u8", <<"vrev32q_u8", <<"vreinterpretq_u8_u32", <<"reg", "HASH1_SAVE_P1">>>>>>>>>> >>
  >>

\* one pass of the loop, block by block
rsha256_fast_x1_loop ==
  <<
    \* init state value for SHA256 rounds
    << <<"=", "STATE0_P1", <<"reg", "ABCD_INIT">>>>,
       <<"=", "STATE1_P1", <<"reg", "EFGH_INIT">>>> >>,
    \* rounds 0-3
    << <<"=", "MSGV_P1", <<"vaddq_u32", <<"reg", "HASH0_SAVE_P1">>, <<"vld1q_u32", <<"adr", "K64", 0>>>>>>>>,
       <<"=", "STATEV_P1", <<"reg", "STATE0_P1">>>>,
       <<"=", "STATE0_P1", <<"vsha256hq_u32", <<"reg", "STATE0_P1">>, <<"reg", "STATE1_P1">>, <<"reg", "MSGV_P1">>>>>>,
       <<"=", "STATE1_P1", <<"vsha256h2q_u32", <<"reg", "STATE1_P1">>, <<"reg", "STATEV_P1">>, <<"reg", "MSGV_P1">>>>>>,
       <<"=", "MSGTMP0_P1", <<"vsha256su0q_u32", <<"reg", "HASH0_SAVE_P1">>, <<"reg", "HASH1_SAVE_P1">>>>>> >>,
    \* rounds 4-7
    << <<"=", "MSGV_P1", <<"vaddq_u32", <<"reg", "HASH1_SAVE_P1">>, <<"vld1q_u32", <<"adr", "K64", 4>>>>>>>>,
       <<"=", "STATEV_P1", <<"reg", "STATE0_P1">>>>,
       <<"=", "STATE0_P1", <<"vsha256hq_u32", <<"reg", "STATE0_P1">>, <<"reg", "STATE1_P1">>, <<"reg", "MSGV_P1">>>>>>,
       <<"=", "STATE1_P1", <<"vsha256h2q_u32", <<"reg", "STATE1_P1">>, <<"reg", "STATEV_P1">>, <<"reg", "MSGV_P1">>>>>>,
       <<"=", "MSGTMP0_P1", <<"vsha256su1q_u32", <<"reg", "MSGTMP0_P1">>, <<"reg", "HPAD0_CACHE">>, <<"reg", "HPAD1_CACHE">>>>>>,
       <<"=", "MSGTMP1_P1", <<"vsha256su0q_u32", <<"reg", "HASH1_SAVE_P1">>, <<"reg", "HPAD0_CACHE">>>>>> >>,
    \* rounds 8-11
    << <<"=", "MSGV_P1", <<"vaddq_u32", <<"reg", "HPAD0_CACHE">>, <<"vld1q_u32", <<"adr", "K64", 8>>>>>>>>,
       <<"=", "STATEV_P1", <<"reg", "STATE0_P1">>>>,
       <<"=", "STATE0_P1", <<"vsha256hq_u32", <<"reg", "STATE0_P1">>, <<"reg", "STATE1_P1">>, <<"reg", "MSGV_P1">>>>>>,
       <<"=", "STATE1_P1", <<"vsha256h2q_u32", <<"reg", "STATE1_P1">>, <<"reg", "STATEV_P1">>, <<"reg", "MSGV_P1">>>>>>,
       <<"=", "MSGTMP1_P1", <<"vsha256su1q_u32", <<"reg", "MSGTMP1_P1">>, <<"reg", "HPAD1_CACHE">>, <<"reg", "MSGTMP0_P1">>>>>>,
       <<"=", "MSGTMP2_P1", <<"reg", "HPAD0_CACHE">>>> >>,
    \* rounds 12-15
    << <<"=", "MSGV_P1", <<"vaddq_u32", <<"reg", "HPAD1_CACHE">>, <<"vld1q_u32", <<"adr", "K64", 12>>>>>>>>,
       <<"=", "STATEV_P1", <<"reg", "STATE0_P1">>>>,
       <<"=", "STATE0_P1", <<"vsha256hq_u32", <<"reg", "STATE0_P1">>, <<"reg", "STATE1_P1">>, <<"reg", "MSGV_P1">>>>>>,
       <<"=", "STATE1_P1", <<"vsha256h2q_u32", <<"reg", "STATE1_P1">>, <<"reg", "STATEV_P1">>, <<"reg", "MSGV_P1">>>>>>,
       <<"=", "MSGTMP2_P1", <<"vsha256su1q_u32", <<"reg", "MSGTMP2_P1">>, <<"reg", "MSGTMP0_P1">>, <<"reg", "MSGTMP1_P1">>>>>>,
       <<"=", "MSGTMP3_P1", <<"vsha256su0q_u32", <<"reg", "HPAD1_CACHE">>, <<"reg", "MSGTMP0_P1">>>>>> >>,
    \* rounds 16-19, 20-23, 24-27, 28-31
    ARM_SHA256ROUND_X1("MSGV_P1", "MSGTMP0_P1", "MSGTMP1_P1", "MSGTMP2_P1", "MSGTMP3_P1", "STATEV_P1", "STATE0_P1",
                       "STATE1_P1", <<"adr", "K64", 16>>),
    ARM_SHA256ROUND_X1("MSGV_P1", "MSGTMP1_P1", "MSGTMP2_P1", "MSGTMP3_P1", "MSGTMP0_P1", "STATEV_P1", "STATE0_P1",
                       "STATE1_P1", <<"adr", "K64", 20>>),
    ARM_SHA256ROUND_X1("MSGV_P1", "MSGTMP2_P1", "MSGTMP3_P1", "MSGTMP0_P1", "MSGTMP1_P1", "STATEV_P1", "STATE0_P1",
                       "STATE1_P1", <<"adr", "K64", 24>>),
    ARM_SHA256ROUND_X1("MSGV_P1", "MSGTMP3_P1", "MSGTMP0_P1", "MSGTMP1_P1", "MSGTMP2_P1", "STATEV_P1", "STATE0_P1",
                       "STATE1_P1", <<"adr", "K64", 28>>),
    \* rounds 32-35, 36-39, 40-43, 44-47
    ARM_SHA256ROUND_X1("MSGV_P1", "MSGTMP0_P1", "MSGTMP1_P1", "MSGTMP2_P1", "MSGTMP3_P1", "STATEV_P1", "STATE0_P1",
                       "STATE1_P1", <<"adr", "K64", 32>>),
    ARM_SHA256ROUND_X1("MSGV_P1", "MSGTMP1_P1", "MSGTMP2_P1", "MSGTMP3_P1", "MSGTMP0_P1", "STATEV_P1", "STATE0_P1",
                       "STATE1_P1", <<"adr", "K64", 36>>),
    ARM_SHA256ROUND_X1("MSGV_P1", "MSGTMP2_P1", "MSGTMP3_P1", "MSGTMP0_P1", "MSGTMP1_P1", "STATEV_P1", "STATE0_P1",
                       "STATE1_P1", <<"adr", "K64", 40>>),
    ARM_SHA256ROUND_X1("MSGV_P1", "MSGTMP3_P1", "MSGTMP0_P1", "MSGTMP1_P1", "MSGTMP2_P1", "STATEV_P1", "STATE0_P1",
                       "STATE1_P1", <<"adr", "K64", 44>>),
    \* rounds 48-51
    << <<"=", "MSGV_P1", <<"vaddq_u32", <<"reg", "MSGTMP0_P1">>, <<"vld1q_u32", <<"adr", "K64", 48>>>>>>>>,
       <<"=", "STATEV_P1", <<"reg", "STATE0_P1">>>>,
       <<"=", "STATE0_P1", <<"vsha256hq_u32", <<"reg", "STATE0_P1">>, <<"reg", "STATE1_P1">>, <<"reg", "MSGV_P1">>>>>>,
       <<"=", "STATE1_P1", <<"vsha256h2q_u32", <<"reg", "STATE1_P1">>, <<"reg", "STATEV_P1">>, <<"reg", "MSGV_P1">>>>>>,
       <<"=", "MSGTMP3_P1", <<"vsha256su1q_u32", <<"reg", "MSGTMP3_P1">>, <<"reg", "MSGTMP1_P1">>, <<"reg", "MSGTMP2_P1">>>>>> >>,
    \* rounds 52-55
    << <<"=", "MSGV_P1", <<"vaddq_u32", <<"reg", "MSGTMP1_P1">>, <<"vld1q_u32", <<"adr", "K64", 52>>>>>>>>,
       <<"=", "STATEV_P1", <<"reg", "STATE0_P1">>>>,
       <<"=", "STATE0_P1", <<"vsha256hq_u32", <<"reg", "STATE0_P1">>, <<"reg", "STATE1_P1">>, <<"reg", "MSGV_P1">>>>>>,
       <<"=", "STATE1_P1", <<"vsha256h2q_u32", <<"reg", "STATE1_P1">>, <<"reg", "STATEV_P1">>, <<"reg", "MSGV_P1">>>>>> >>,
    \* rounds 56-59
    << <<"=", "MSGV_P1", <<"vaddq_u32", <<"reg", "MSGTMP2_P1">>, <<"vld1q_u32", <<"adr", "K64", 56>>>>>>>>,
       <<"=", "STATEV_P1", <<"reg", "STATE0_P1">>>>,
       <<"=", "STATE0_P1", <<"vsha256hq_u32", <<"reg", "STATE0_P1">>, <<"reg", "STATE1_P1">>, <<"reg", "MSGV_P1">>>>>>,
       <<"=", "STATE1_P1", <<"vsha256h2q_u32", <<"reg", "STATE1_P1">>, <<"reg", "STATEV_P1">>, <<"reg", "MSGV_P1">>>>>> >>,
    \* rounds 60-63
    << <<"=", "MSGV_P1", <<"vaddq_u32", <<"reg", "MSGTMP3_P1">>, <<"vld1q_u32", <<"adr", "K64", 60>>>>>>>>,
       <<"=", "STATEV_P1", <<"reg", "STATE0_P1">>>>,
       <<"=", "STATE0_P1", <<"vsha256hq_u32", <<"reg", "STATE0_P1">>, <<"reg", "STATE1_P1">>, <<"reg", "MSGV_P1">>>>>>,
       <<"=", "STATE1_P1", <<"vsha256h2q_u32", <<"reg", "STATE1_P1">>, <<"reg", "STATEV_P1">>, <<"reg", "MSGV_P1">>>>>> >>,
    \* add init state to current state
    << <<"=", "HASH0_SAVE_P1", <<"vaddq_u32", <<"reg", "STATE0_P1">>, <<"reg", "ABCD_INIT">>>>>>,
       <<"=", "HASH1_SAVE_P1", <<"vaddq_u32", <<"reg", "STATE1_P1">>, <<"reg", "EFGH_INIT">>>>>> >>
  >>

\* the statements after the loop, block by block
rsha256_fast_x1_exit ==
  <<
    \* shuffle Cryptography Extensions hash value back
    << <<"=", "HASH0_SAVE_P1", <<"vreinterpretq_u32_u8", <<"vrev32q_u8", <<"vreinterpretq_u8_u32", <<"reg", "HASH0_SAVE_P1">>>>>>>>>>,
       <<"=", "HASH1_SAVE_P1", <<"vreinterpretq_u32_u8", <<"vrev32q_u8", <<"vreinterpretq_u8_u32", <<"reg", "HASH1_SAVE_P1">>>>>>>>>> >>,
    \* copy/return final hash value into *hash
    << <<"store", <<"adr", "hash", 0>>, <<"reg", "HASH0_SAVE_P1">>>>,
       <<"store", <<"adr", "hash", 16>>, <<"reg", "HASH1_SAVE_P1">>>> >>
  >>

\* ----------------------------------------------------------------------
\* rsha256_fast_x2 (rsha256pl_fast_arm.cxx, lines 172-379)

\* SHA256ROUND_X2 that does the four rounds for the first lane only
ARM_SHA256ROUND_X2_Lane2Idle(msgv_p1, msgtmp0_p1, msgtmp1_p1, msgtmp2_p1, msgtmp3_p1, statev_p1, state0_p1, state1_p1, msgv_p2, msgtmp0_p2, msgtmp1_p2, msgtmp2_p2, msgtmp3_p2, statev_p2, state0_p2, state1_p2, kvalue) ==
  << <<"=", msgv_p1, <<"vaddq_u32", <<"reg", msgtmp0_p1>>, <<"vld1q_u32", kvalue>>>>>>,
     <<"=", msgv_p2, <<"vaddq_u32", <<"reg", msgtmp0_p2>>, <<"vld1q_u32", kvalue>>>>>>,
     <<"=", statev_p1, <<"reg", state0_p1>>>>,
     <<"=", statev_p2, <<"reg", state0_p2>>>>,
     <<"=", state0_p1, <<"vsha256hq_u32", <<"reg", state0_p1>>, <<"reg", state1_p1>>, <<"reg", msgv_p1>>>>>>,
     <<"=", state1_p1, <<"vsha256h2q_u32", <<"reg", state1_p1>>, <<"reg", statev_p1>>, <<"reg", msgv_p1>>>>>>,
     <<"=", msgtmp3_p1, <<"vsha256su1q_u32", <<"reg", msgtmp3_p1>>, <<"reg", msgtmp1_p1>>, <<"reg", msgtmp2_p1>>>>>>,
     <<"=", msgtmp3_p2, <<"vsha256su1q_u32", <<"reg", msgtmp3_p2>>, <<"reg", msgtmp1_p2>>, <<"reg", msgtmp2_p2>>>>>>,
     <<"=", msgtmp0_p1, <<"vsha256su0q_u32", <<"reg", msgtmp0_p1>>, <<"reg", msgtmp1_p1>>>>>>,
     <<"=", msgtmp0_p2, <<"vsha256su0q_u32", <<"reg", msgtmp0_p2>>, <<"reg", msgtmp1_p2>>>>>> >>

\* #define SHA256ROUND_X2
ARM_SHA256ROUND_X2(msgv_p1, msgtmp0_p1, msgtmp1_p1, msgtmp2_p1, msgtmp3_p1, statev_p1, state0_p1, state1_p1, msgv_p2, msgtmp0_p2, msgtmp1_p2, msgtmp2_p2, msgtmp3_p2, statev_p2, state0_p2, state1_p2, kvalue) ==
  << <<"=", msgv_p1, <<"vaddq_u32", <<"reg", msgtmp0_p1>>, <<"vld1q_u32", kvalue>>>>>>,
     <<"=", msgv_p2, <<"vaddq_u32", <<"reg", msgtmp0_p2>>, <<"vld1q_u32", kvalue>>>>>>,
     <<"=", statev_p1, <<"reg", state0_p1>>>>,
     <<"=", statev_p2, <<"reg", state0_p2>>>>,
     <<"=", state0_p1, <<"vsha256hq_u32", <<"reg", state0_p1>>, <<"reg", state1_p1>>, <<"reg", msgv_p1>>>>>>,
     <<"=", state0_p2, <<"vsha256hq_u32", <<"reg", state0_p2>>, <<"reg", state1_p2>>, <<"reg", msgv_p2>>>>>>,
     <<"=", state1_p1, <<"vsha256h2q_u32", <<"reg", state1_p1>>, <<"reg", statev_p1>>, <<"reg", msgv_p1>>>>>>,
     <<"=", state1_p2, <<"vsha256h2q_u32", <<"reg", state1_p2>>, <<"reg", statev_p2>>, <<"reg", msgv_p2>>>>>>,
     <<"=", msgtmp3_p1, <<"vsha256su1q_u32", <<"reg", msgtmp3_p1>>, <<"reg", msgtmp1_p1>>, <<"reg", msgtmp2_p1>>>>>>,
     <<"=", msgtmp3_p2, <<"vsha256su1q_u32", <<"reg", msgtmp3_p2>>, <<"reg", msgtmp1_p2>>, <<"reg", msgtmp2_p2>>>>>>,
     <<"=", msgtmp0_p1, <<"vsha256su0q_u32", <<"reg", msgtmp0_p1>>, <<"reg", msgtmp1_p1>>>>>>,
     <<"=", msgtmp0_p2, <<"vsha256su0q_u32", <<"reg", msgtmp0_p2>>, <<"reg", msgtmp1_p2>>>>>> >>

\* the vector locals, all holding j
rsha256_fast_x2_locals(j) ==
  [ABCD_INIT |-> j, EFGH_INIT |-> j, HPAD0_CACHE |-> j, HPAD1_CACHE |-> j, STATE0_P1 |-> j,
   STATE1_P1 |-> j, STATEV_P1 |-> j, MSGV_P1 |-> j, MSGTMP0_P1 |-> j, MSGTMP1_P1 |-> j,
   MSGTMP2_P1 |-> j, MSGTMP3_P1 |-> j, STATE0_P2 |-> j, STATE1_P2 |-> j, STATEV_P2 |-> j,
   MSGV_P2 |-> j, MSGTMP0_P2 |-> j, MSGTMP1_P2 |-> j, MSGTMP2_P2 |-> j, MSGTMP3_P2 |-> j,
   HASH0_SAVE_P1 |-> j, HASH1_SAVE_P1 |-> j, HASH0_SAVE_P2 |-> j, HASH1_SAVE_P2 |-> j]

\* rsha256_fast_x2_entry without the load of HASH1_SAVE_P2: the register keeps what it held
rsha256_fast_x2_entry_NoLoad ==
  <<
    \* init values for SHA256 rounds, A-H logic
    << <<"=", "ABCD_INIT", <<"vld1q_u32", <<"adr", "abcdinit", 0>>>>>>,
       <<"=", "EFGH_INIT", <<"vld1q_u32", <<"adr", "efghinit", 0>>>>>> >>,
    \* pre-arranged values for 3rd/4th 16bytes of 1x block, SHA256 padding logic
    << <<"=", "HPAD0_CACHE", <<"vld1q_u32", <<"adr", "hpad0cache", 0>>>>>>,
       <<"=", "HPAD1_CACHE", <<"vld1q_u32", <<"adr", "hpad1cache", 0>>>>>> >>,
    \* variables to init/keep hash value through SHA256 rounds
    << <<"=", "HASH0_SAVE_P1", <<"vld1q_u32", <<"adr", "hash", 0>>>>>>,
       <<"=", "HASH1_SAVE_P1", <<"vld1q_u32", <<"adr", "hash", 16>>>>>>,
       <<"=", "HASH0_SAVE_P2", <<"vld1q_u32", <<"adr", "hash", 32>>>>>> >>,
    \* shuffle hash bytes required by Cryptography Extensions
    << <<"=", "HASH0_SAVE_P1", <<"vreinterpretq_u32_u8", <<"vrev32q_u8", <<"vreinterpretq_u8_u32", <<"reg", "HASH0_SAVE_P1">>>>>>>>>>,
       <<"=", "HASH1_SAVE_P1", <<"vreinterpretq_u32_u8", <<"vrev32q_u8", <<"vreinterpretq_u8_u32", <<"reg", "HASH1_SAVE_P1">>>>>>>>>>,
       <<"=", "HASH0_SAVE_P2", <<"vreinterpretq_u32_u8", <<"vrev32q_u8", <<"vreinterpretq_u8_u32", <<"reg", "HASH0_SAVE_P2">>>>>>>>>>,
       <<"=", "HASH1_SAVE_P2", <<"vreinterpretq_u32_u8", <<"vrev32q_u8", <<"vreinterpretq_u8_u32", <<"reg", "HASH1_SAVE_P2">>>>>>>>>> >>
  >>

\* the statements before the loop, block by block
rsha256_fast_x2_entry ==
  <<
    \* init values for SHA256 rounds, A-H logic
    << <<"=", "ABCD_INIT", <<"vld1q_u32", <<"adr", "abcdinit", 0>>>>>>,
       <<"=", "EFGH_INIT", <<"vld1q_u32", <<"adr", "efghinit", 0>>>>>> >>,
    \* pre-arranged values for 3rd/4th 16bytes of 1x block, SHA256 padding logic
    << <<"=", "HPAD0_CACHE", <<"vld1q_u32", <<"adr", "hpad0cache", 0>>>>>>,
       <<"=", "HPAD1_CACHE", <<"vld1q_u32", <<"adr", "hpad1cache", 0>>>>>> >>,
    \* variables to init/keep hash value through SHA256 rounds
    << <<"=", "HASH0_SAVE_P1", <<"vld1q_u32", <<"adr", "hash", 0>>>>>>,
       <<"=", "HASH1_SAVE_P1", <<"vld1q_u32", <<"adr", "hash", 16>>>>>>,
       <<"=", "HASH0_SAVE_P2", <<"vld1q_u32", <<"adr", "hash", 32>>>>>>,
       <<"=", "HASH1_SAVE_P2", <<"vld1q_u32", <<"adr", "hash", 48>>>>>> >>,
    \* shuffle hash bytes required by Cryptography Extensions
    << <<"=", "HASH0_SAVE_P1", <<"vreinterpretq_u32_u8", <<"vrev32q_u8", <<"vreinterpretq_u8_u32", <<"reg", "HASH0_SAVE_P1">>>>>>>>>>,
       <<"=", "HASH1_SAVE_P1", <<"vreinterpretq_u32_u8", <<"vrev32q_u8", <<"vreinterpretq_u8_u32", <<"reg", "HASH1_SAVE_P1">>>>>>>>>>,
       <<"=", "HASH0_SAVE_P2", <<"vreinterpretq_u32_u8", <<"vrev32q_u8", <<"vreinterpretq_u8_u32", <<"reg", "HASH0_SAVE_P2">>>>>>>>>>,
       <<"=", "HASH1_SAVE_P2", <<"vreinterpretq_u32_u8", <<"vrev32q_u8", <<"vreinterpretq_u8_u32", <<"reg", "HASH1_SAVE_P2">>>>>>>>>> >>
  >>

\* one pass of the loop, block by block
rsha256_fast_x2_loop ==
  <<
    \* init state value for SHA256 rounds
    << <<"=", "STATE0_P1", <<"reg", "ABCD_INIT">>>>,
       <<"=", "STATE0_P2", <<"reg", "ABCD_INIT">>>>,
       <<"=", "STATE1_P1", <<"reg", "EFGH_INIT">>>>,
       <<"=", "STATE1_P2", <<"reg", "EFGH_INIT">>>> >>,
    \* rounds 0-3
    << <<"=", "MSGV_P1", <<"vaddq_u32", <<"reg", "HASH0_SAVE_P1">>, <<"vld1q_u32", <<"adr", "K64", 0>>>>>>>>,
       <<"=", "MSGV_P2", <<"vaddq_u32", <<"reg", "HASH0_SAVE_P2">>, <<"vld1q_u32", <<"adr", "K64", 0>>>>>>>>,
       <<"=", "STATEV_P1", <<"reg", "STATE0_P1">>>>,
       <<"=", "STATEV_P2", <<"reg", "STATE0_P2">>>>,
       <<"=", "STATE0_P1", <<"vsha256hq_u32", <<"reg", "STATE0_P1">>, <<"reg", "STATE1_P1">>, <<"reg", "MSGV_P1">>>>>>,
       <<"=", "STATE0_P2", <<"vsha256hq_u32", <<"reg", "STATE0_P2">>, <<"reg", "STATE1_P2">>, <<"reg", "MSGV_P2">>>>>>,
       <<"=", "STATE1_P1", <<"vsha256h2q_u32", <<"reg", "STATE1_P1">>, <<"reg", "STATEV_P1">>, <<"reg", "MSGV_P1">>>>>>,
       <<"=", "STATE1_P2", <<"vsha256h2q_u32", <<"reg", "STATE1_P2">>, <<"reg", "STATEV_P2">>, <<"reg", "MSGV_P2">>>>>>,
       <<"=", "MSGTMP0_P1", <<"vsha256su0q_u32", <<"reg", "HASH0_SAVE_P1">>, <<"reg", "HASH1_SAVE_P1">>>>>>,
       <<"=", "MSGTMP0_P2", <<"vsha256su0q_u32", <<"reg", "HASH0_SAVE_P2">>, <<"reg", "HASH1_SAVE_P2">>>>>> >>,
    \* rounds 4-7
    << <<"=", "MSGV_P1", <<"vaddq_u32", <<"reg", "HASH1_SAVE_P1">>, <<"vld1q_u32", <<"adr", "K64", 4>>>>>>>>,
       <<"=", "MSGV_P2", <<"vaddq_u32", <<"reg", "HASH1_SAVE_P2">>, <<"vld1q_u32", <<"adr", "K64", 4>>>>>>>>,
       <<"=", "STATEV_P1", <<"reg", "STATE0_P1">>>>,
       <<"=", "STATEV_P2", <<"reg", "STATE0_P2">>>>,
       <<"=", "STATE0_P1", <<"vsha256hq_u32", <<"reg", "STATE0_P1">>, <<"reg", "STATE1_P1">>, <<"reg", "MSGV_P1">>>>>>,
       <<"=", "STATE0_P2", <<"vsha256hq_u32", <<"reg", "STATE0_P2">>, <<"reg", "STATE1_P2">>, <<"reg", "MSGV_P2">>>>>>,
       <<"=", "STATE1_P1", <<"vsha256h2q_u32", <<"reg", "STATE1_P1">>, <<"reg", "STATEV_P1">>, <<"reg", "MSGV_P1">>>>>>,
       <<"=", "STATE1_P2", <<"vsha256h2q_u32", <<"reg", "STATE1_P2">>, <<"reg", "STATEV_P2">>, <<"reg", "MSGV_P2">>>>>>,
       <<"=", "MSGTMP0_P1", <<"vsha256su1q_u32", <<"reg", "MSGTMP0_P1">>, <<"reg", "HPAD0_CACHE">>, <<"reg", "HPAD1_CACHE">>>>>>,
       <<"=", "MSGTMP0_P2", <<"vsha256su1q_u32", <<"reg", "MSGTMP0_P2">>, <<"reg", "HPAD0_CACHE">>, <<"reg", "HPAD1_CACHE">>>>>>,
       <<"=", "MSGTMP1_P1", <<"vsha256su0q_u32", <<"reg", "HASH1_SAVE_P1">>, <<"reg", "HPAD0_CACHE">>>>>>,
       <<"=", "MSGTMP1_P2", <<"vsha256su0q_u32", <<"reg", "HASH1_SAVE_P2">>, <<"reg", "HPAD0_CACHE">>>>>> >>,
    \* rounds 8-11
    << <<"=", "MSGV_P1", <<"vaddq_u32", <<"reg", "HPAD0_CACHE">>, <<"vld1q_u32", <<"adr", "K64", 8>>>>>>>>,
       <<"=", "MSGV_P2", <<"vaddq_u32", <<"reg", "HPAD0_CACHE">>, <<"vld1q_u32", <<"adr", "K64", 8>>>>>>>>,
       <<"=", "STATEV_P1", <<"reg", "STATE0_P1">>>>,
       <<"=", "STATEV_P2", <<"reg", "STATE0_P2">>>>,
       <<"=", "STATE0_P1", <<"vsha256hq_u32", <<"reg", "STATE0_P1">>, <<"reg", "STATE1_P1">>, <<"reg", "MSGV_P1">>>>>>,
       <<"=", "STATE0_P2", <<"vsha256hq_u32", <<"reg", "STATE0_P2">>, <<"reg", "STATE1_P2">>, <<"reg", "MSGV_P2">>>>>>,
       <<"=", "STATE1_P1", <<"vsha256h2q_u32", <<"reg", "STATE1_P1">>, <<"reg", "STATEV_P1">>, <<"reg", "MSGV_P1">>>>>>,
       <<"=", "STATE1_P2", <<"vsha256h2q_u32", <<"reg", "STATE1_P2">>, <<"reg", "STATEV_P2">>, <<"reg", "MSGV_P2">>>>>>,
       <<"=", "MSGTMP1_P1", <<"vsha256su1q_u32", <<"reg", "MSGTMP1_P1">>, <<"reg", "HPAD1_CACHE">>, <<"reg", "MSGTMP0_P1">>>>>>,
       <<"=", "MSGTMP1_P2", <<"vsha256su1q_u32", <<"reg", "MSGTMP1_P2">>, <<"reg", "HPAD1_CACHE">>, <<"reg", "MSGTMP0_P2">>>>>>,
       <<"=", "MSGTMP2_P1", <<"reg", "HPAD0_CACHE">>>>,
       <<"=", "MSGTMP2_P2", <<"reg", "HPAD0_CACHE">>>> >>,
    \* rounds 12-15
    << <<"=", "MSGV_P1", <<"vaddq_u32", <<"reg", "HPAD1_CACHE">>, <<"vld1q_u32", <<"adr", "K64", 12>>>>>>>>,
       <<"=", "MSGV_P2", <<"vaddq_u32", <<"reg", "HPAD1_CACHE">>, <<"vld1q_u32", <<"adr", "K64", 12>>>>>>>>,
       <<"=", "STATEV_P1", <<"reg", "STATE0_P1">>>>,
       <<"=", "STATEV_P2", <<"reg", "STATE0_P2">>>>,
       <<"=", "STATE0_P1", <<"vsha256hq_u32", <<"reg", "STATE0_P1">>, <<"reg", "STATE1_P1">>, <<"reg", "MSGV_P1">>>>>>,
       <<"=", "STATE0_P2", <<"vsha256hq_u32", <<"reg", "STATE0_P2">>, <<"reg", "STATE1_P2">>, <<"reg", "MSGV_P2">>>>>>,
       <<"=", "STATE1_P1", <<"vsha256h2q_u32", <<"reg", "STATE1_P1">>, <<"reg", "STATEV_P1">>, <<"reg", "MSGV_P1">>>>>>,
       <<"=", "STATE1_P2", <<"vsha256h2q_u32", <<"reg", "STATE1_P2">>, <<"reg", "STATEV_P2">>, <<"reg", "MSGV_P2">>>>>>,
       <<"=", "MSGTMP2_P1", <<"vsha256su1q_u32", <<"reg", "MSGTMP2_P1">>, <<"reg", "MSGTMP0_P1">>, <<"reg", "MSGTMP1_P1">>>>>>,
       <<"=", "MSGTMP2_P2", <<"vsha256su1q_u32", <<"reg", "MSGTMP2_P2">>, <<"reg", "MSGTMP0_P2">>, <<"reg", "MSGTMP1_P2">>>>>>,
       <<"=", "MSGTMP3_P1", <<"vsha256su0q_u32", <<"reg", "HPAD1_CACHE">>, <<"reg", "MSGTMP0_P1">>>>>>,
       <<"=", "MSGTMP3_P2", <<"vsha256su0q_u32", <<"reg", "HPAD1_CACHE">>, <<"reg", "MSGTMP0_P2">>>>>> >>,
    \* rounds 16-19, 20-23, 24-27, 28-31
    ARM_SHA256ROUND_X2("MSGV_P1", "MSGTMP0_P1", "MSGTMP1_P1", "MSGTMP2_P1", "MSGTMP3_P1", "STATEV_P1", "STATE0_P1",
                       "STATE1_P1", "MSGV_P2", "MSGTMP0_P2", "MSGTMP1_P2", "MSGTMP2_P2", "MSGTMP3_P2", "STATEV_P2",
                       "STATE0_P2", "STATE1_P2", <<"adr", "K64", 16>>),
    ARM_SHA256ROUND_X2("MSGV_P1", "MSGTMP1_P1", "MSGTMP2_P1", "MSGTMP3_P1", "MSGTMP0_P1", "STATEV_P1", "STATE0_P1",
                       "STATE1_P1", "MSGV_P2", "MSGTMP1_P2", "MSGTMP2_P2", "MSGTMP3_P2", "MSGTMP0_P2", "STATEV_P2",
                       "STATE0_P2", "STATE1_P2", <<"adr", "K64", 20>>),
    ARM_SHA256ROUND_X2("MSGV_P1", "MSGTMP2_P1", "MSGTMP3_P1", "MSGTMP0_P1", "MSGTMP1_P1", "STATEV_P1", "STATE0_P1",
                       "STATE1_P1", "MSGV_P2", "MSGTMP2_P2", "MSGTMP3_P2", "MSGTMP0_P2", "MSGTMP1_P2", "STATEV_P2",
                       "STATE0_P2", "STATE1_P2", <<"adr", "K64", 24>>),
    ARM_SHA256ROUND_X2("MSGV_P1", "MSGTMP3_P1", "MSGTMP0_P1", "MSGTMP1_P1", "MSGTMP2_P1", "STATEV_P1", "STATE0_P1",
                       "STATE1_P1", "MSGV_P2", "MSGTMP3_P2", "MSGTMP0_P2", "MSGTMP1_P2", "MSGTMP2_P2", "STATEV_P2",
                       "STATE0_P2", "STATE1_P2", <<"adr", "K64", 28>>),
    \* rounds 32-35, 36-39, 40-43, 44-47
    ARM_SHA256ROUND_X2("MSGV_P1", "MSGTMP0_P1", "MSGTMP1_P1", "MSGTMP2_P1", "MSGTMP3_P1", "STATEV_P1", "STATE0_P1",
                       "STATE1_P1", "MSGV_P2", "MSGTMP0_P2", "MSGTMP1_P2", "MSGTMP2_P2", "MSGTMP3_P2", "STATEV_P2",
                       "STATE0_P2", "STATE1_P2", <<"adr", "K64", 32>>),
    ARM_SHA256ROUND_X2("MSGV_P1", "MSGTMP1_P1", "MSGTMP2_P1", "MSGTMP3_P1", "MSGTMP0_P1", "STATEV_P1", "STATE0_P1",
                       "STATE1_P1", "MSGV_P2", "MSGTMP1_P2", "MSGTMP2_P2", "MSGTMP3_P2", "MSGTMP0_P2", "STATEV_P2",
                       "STATE0_P2", "STATE1_P2", <<"adr", "K64", 36>>),
    ARM_SHA256ROUND_X2("MSGV_P1", "MSGTMP2_P1", "MSGTMP3_P1", "MSGTMP0_P1", "MSGTMP1_P1", "STATEV_P1", "STATE0_P1",
                       "STATE1_P1", "MSGV_P2", "MSGTMP2_P2", "MSGTMP3_P2", "MSGTMP0_P2", "MSGTMP1_P2", "STATEV_P2",
                       "STATE0_P2", "STATE1_P2", <<"adr", "K64", 40>>),
    ARM_SHA256ROUND_X2("MSGV_P1", "MSGTMP3_P1", "MSGTMP0_P1", "MSGTMP1_P1", "MSGTMP2_P1", "STATEV_P1", "STATE0_P1",
                       "STATE1_P1", "MSGV_P2", "MSGTMP3_P2", "MSGTMP0_P2", "MSGTMP1_P2", "MSGTMP2_P2", "STATEV_P2",
                       "STATE0_P2", "STATE1_P2", <<"adr", "K64", 44>>),
    \* rounds 48-51
    << <<"=", "MSGV_P1", <<"vaddq_u32", <<"reg", "MSGTMP0_P1">>, <<"vld1q_u32", <<"adr", "K64", 48>>>>>>>>,
       <<"=", "MSGV_P2", <<"vaddq_u32", <<"reg", "MSGTMP0_P2">>, <<"vld1q_u32", <<"adr", "K64", 48>>>>>>>>,
       <<"=", "STATEV_P1", <<"reg", "STATE0_P1">>>>,
       <<"=", "STATEV_P2", <<"reg", "STATE0_P2">>>>,
       <<"=", "STATE0_P1", <<"vsha256hq_u32", <<"reg", "STATE0_P1">>, <<"reg", "STATE1_P1">>, <<"reg", "MSGV_P1">>>>>>,
       <<"=", "STATE0_P2", <<"vsha256hq_u32", <<"reg", "STATE0_P2">>, <<"reg", "STATE1_P2">>, <<"reg", "MSGV_P2">>>>>>,
       <<"=", "STATE1_P1", <<"vsha256h2q_u32", <<"reg", "STATE1_P1">>, <<"reg", "STATEV_P1">>, <<"reg", "MSGV_P1">>>>>>,
       <<"=", "STATE1_P2", <<"vsha256h2q_u32", <<"reg", "STATE1_P2">>, <<"reg", "STATEV_P2">>, <<"reg", "MSGV_P2">>>>>>,
       <<"=", "MSGTMP3_P1", <<"vsha256su1q_u32", <<"reg", "MSGTMP3_P1">>, <<"reg", "MSGTMP1_P1">>, <<"reg", "MSGTMP2_P1">>>>>>,
       <<"=", "MSGTMP3_P2", <<"vsha256su1q_u32", <<"reg", "MSGTMP3_P2">>, <<"reg", "MSGTMP1_P2">>, <<"reg", "MSGTMP2_P2">>>>>> >>,
    \* rounds 52-55
    << <<"=", "MSGV_P1", <<"vaddq_u32", <<"reg", "MSGTMP1_P1">>, <<"vld1q_u32", <<"adr", "K64", 52>>>>>>>>,
       <<"=", "MSGV_P2", <<"vaddq_u32", <<"reg", "MSGTMP1_P2">>, <<"vld1q_u32", <<"adr", "K64", 52>>>>>>>>,
       <<"=", "STATEV_P1", <<"reg", "STATE0_P1">>>>,
       <<"=", "STATEV_P2", <<"reg", "STATE0_P2">>>>,
       <<"=", "STATE0_P1", <<"vsha256hq_u32", <<"reg", "STATE0_P1">>, <<"reg", "STATE1_P1">>, <<"reg", "MSGV_P1">>>>>>,
       <<"=", "STATE0_P2", <<"vsha256hq_u32", <<"reg", "STATE0_P2">>, <<"reg", "STATE1_P2">>, <<"reg", "MSGV_P2">>>>>>,
       <<"=", "STATE1_P1", <<"vsha256h2q_u32", <<"reg", "STATE1_P1">>, <<"reg", "STATEV_P1">>, <<"reg", "MSGV_P1">>>>>>,
       <<"=", "STATE1_P2", <<"vsha256h2q_u32", <<"reg", "STATE1_P2">>, <<"reg", "STATEV_P2">>, <<"reg", "MSGV_P2">>>>>> >>,
    \* rounds 56-59
    << <<"=", "MSGV_P1", <<"vaddq_u32", <<"reg", "MSGTMP2_P1">>, <<"vld1q_u32", <<"adr", "K64", 56>>>>>>>>,
       <<"=", "MSGV_P2", <<"vaddq_u32", <<"reg", "MSGTMP2_P2">>, <<"vld1q_u32", <<"adr", "K64", 56>>>>>>>>,
       <<"=", "STATEV_P1", <<"reg", "STATE0_P1">>>>,
       <<"=", "STATEV_P2", <<"reg", "STATE0_P2">>>>,
       <<"=", "STATE0_P1", <<"vsha256hq_u32", <<"reg", "STATE0_P1">>, <<"reg", "STATE1_P1">>, <<"reg", "MSGV_P1">>>>>>,
       <<"=", "STATE0_P2", <<"vsha256hq_u32", <<"reg", "STATE0_P2">>, <<"reg", "STATE1_P2">>, <<"reg", "MSGV_P2">>>>>>,
       <<"=", "STATE1_P1", <<"vsha256h2q_u32", <<"reg", "STATE1_P1">>, <<"reg", "STATEV_P1">>, <<"reg", "MSGV_P1">>>>>>,
       <<"=", "STATE1_P2", <<"vsha256h2q_u32", <<"reg", "STATE1_P2">>, <<"reg", "STATEV_P2">>, <<"reg", "MSGV_P2">>>>>> >>,
    \* rounds 60-63
    << <<"=", "MSGV_P1", <<"vaddq_u32", <<"reg", "MSGTMP3_P1">>, <<"vld1q_u32", <<"adr", "K64", 60>>>>>>>>,
       <<"=", "MSGV_P2", <<"vaddq_u32", <<"reg", "MSGTMP3_P2">>, <<"vld1q_u32", <<"adr", "K64", 60>>>>>>>>,
       <<"=", "STATEV_P1", <<"reg", "STATE0_P1">>>>,
       <<"=", "STATEV_P2", <<"reg", "STATE0_P2">>>>,
       <<"=", "STATE0_P1", <<"vsha256hq_u32", <<"reg", "STATE0_P1">>, <<"reg", "STATE1_P1">>, <<"reg", "MSGV_P1">>>>>>,
       <<"=", "STATE0_P2", <<"vsha256hq_u32", <<"reg", "STATE0_P2">>, <<"reg", "STATE1_P2">>, <<"reg", "MSGV_P2">>>>>>,
       <<"=", "STATE1_P1", <<"vsha256h2q_u32", <<"reg", "STATE1_P1">>, <<"reg", "STATEV_P1">>, <<"reg", "MSGV_P1">>>>>>,
       <<"=", "STATE1_P2", <<"vsha256h2q_u32", <<"reg", "STATE1_P2">>, <<"reg", "STATEV_P2">>, <<"reg", "MSGV_P2">>>>>> >>,
    \* add init state to current state
    << <<"=", "HASH0_SAVE_P1", <<"vaddq_u32", <<"reg", "STATE0_P1">>, <<"reg", "ABCD_INIT">>>>>>,
       <<"=", "HASH0_SAVE_P2", <<"vaddq_u32", <<"reg", "STATE0_P2">>, <<"reg", "ABCD_INIT">>>>>>,
       <<"=", "HASH1_SAVE_P1", <<"vaddq_u32", <<"reg", "STATE1_P1">>, <<"reg", "EFGH_INIT">>>>>>,
       <<"=", "HASH1_SAVE_P2", <<"vaddq_u32", <<"reg", "STATE1_P2">>, <<"reg", "EFGH_INIT">>>>>> >>
  >>

\* the statements after the loop, block by block
rsha256_fast_x2_exit ==
  <<
    \* shuffle Cryptography Extensions hash value back
    << <<"=", "HASH0_SAVE_P1", <<"vreinterpretq_u32_u8", <<"vrev32q_u8", <<"vreinterpretq_u8_u32", <<"reg", "HASH0_SAVE_P1">>>>>>>>>>,
       <<"=", "HASH1_SAVE_P1", <<"vreinterpretq_u32_u8", <<"vrev32q_u8", <<"vreinterpretq_u8_u32", <<"reg", "HASH1_SAVE_P1">>>>>>>>>>,
       <<"=", "HASH0_SAVE_P2", <<"vreinterpretq_u32_u8", <<"vrev32q_u8", <<"vreinterpretq_u8_u32", <<"reg", "HASH0_SAVE_P2">>>>>>>>>>,
       <<"=", "HASH1_SAVE_P2", <<"vreinterpretq_u32_u8", <<"vrev32q_u8", <<"vreinterpretq_u8_u32", <<"reg", "HASH1_SAVE_P2">>>>>>>>>> >>,
    \* copy/return final hash value into *hash
    << <<"store", <<"adr", "hash", 0>>, <<"reg", "HASH0_SAVE_P1">>>>,
       <<"store", <<"adr", "hash", 16>>, <<"reg", "HASH1_SAVE_P1">>>>,
       <<"store", <<"adr", "hash", 32>>, <<"reg", "HASH0_SAVE_P2">>>>,
       <<"store", <<"adr", "hash", 48>>, <<"reg", "HASH1_SAVE_P2">>>> >>
  >>

\* ----------------------------------------------------------------------
\* rsha256_fast_x3 (rsha256pl_fast_arm.cxx, lines 381-656)

\* #define SHA256ROUND_X3
ARM_SHA256ROUND_X3(msgv_p1, msgtmp0_p1, msgtmp1_p1, msgtmp2_p1, msgtmp3_p1, statev_p1, state0_p1, state1_p1, msgv_p2, msgtmp0_p2, msgtmp1_p2, msgtmp2_p2, msgtmp3_p2, statev_p2, state0_p2, state1_p2, msgv_p3, msgtmp0_p3, msgtmp1_p3, msgtmp2_p3, msgtmp3_p3, statev_p3, state0_p3, state1_p3, kvalue) ==
  << <<"=", msgv_p1, <<"vaddq_u32", <<"reg", msgtmp0_p1>>, <<"vld1q_u32", kvalue>>>>>>,
     <<"=", msgv_p2, <<"vaddq_u32", <<"reg", msgtmp0_p2>>, <<"vld1q_u32", kvalue>>>>>>,
     <<"=", msgv_p3, <<"vaddq_u32", <<"reg", msgtmp0_p3>>, <<"vld1q_u32", kvalue>>>>>>,
     <<"=", statev_p1, <<"reg", state0_p1>>>>,
     <<"=", statev_p2, <<"reg", state0_p2>>>>,
     <<"=", statev_p3, <<"reg", state0_p3>>>>,
     <<"=", state0_p1, <<"vsha256hq_u32", <<"reg", state0_p1>>, <<"reg", state1_p1>>, <<"reg", msgv_p1>>>>>>,
     <<"=", state0_p2, <<"vsha256hq_u32", <<"reg", state0_p2>>, <<"reg", state1_p2>>, <<"reg", msgv_p2>>>>>>,
     <<"=", state0_p3, <<"vsha256hq_u32", <<"reg", state0_p3>>, <<"reg", state1_p3>>, <<"reg", msgv_p3>>>>>>,
     <<"=", state1_p1, <<"vsha256h2q_u32", <<"reg", state1_p1>>, <<"reg", statev_p1>>, <<"reg", msgv_p1>>>>>>,
     <<"=", state1_p2, <<"vsha256h2q_u32", <<"reg", state1_p2>>, <<"reg", statev_p2>>, <<"reg", msgv_p2>>>>>>,
     <<"=", state1_p3, <<"vsha256h2q_u32", <<"reg", state1_p3>>, <<"reg", statev_p3>>, <<"reg", msgv_p3>>>>>>,
     <<"=", msgtmp3_p1, <<"vsha256su1q_u32", <<"reg", msgtmp3_p1>>, <<"reg", msgtmp1_p1>>, <<"reg", msgtmp2_p1>>>>>>,
     <<"=", msgtmp3_p2, <<"vsha256su1q_u32", <<"reg", msgtmp3_p2>>, <<"reg", msgtmp1_p2>>, <<"reg", msgtmp2_p2>>>>>>,
     <<"=", msgtmp3_p3, <<"vsha256su1q_u32", <<"reg", msgtmp3_p3>>, <<"reg", msgtmp1_p3>>, <<"reg", msgtmp2_p3>>>>>>,
     <<"=", msgtmp0_p1, <<"vsha256su0q_u32", <<"reg", msgtmp0_p1>>, <<"reg", msgtmp1_p1>>>>>>,
     <<"=", msgtmp0_p2, <<"vsha256su0q_u32", <<"reg", msgtmp0_p2>>, <<"reg", msgtmp1_p2>>>>>>,
     <<"=", msgtmp0_p3, <<"vsha256su0q_u32", <<"reg", msgtmp0_p3>>, <<"reg", msgtmp1_p3>>>>>> >>

\* the vector locals, all holding j
rsha256_fast_x3_locals(j) ==
  [ABCD_INIT |-> j, EFGH_INIT |-> j, HPAD0_CACHE |-> j, HPAD1_CACHE |-> j, STATE0_P1 |-> j,
   STATE1_P1 |-> j, STATEV_P1 |-> j, MSGV_P1 |-> j, MSGTMP0_P1 |-> j, MSGTMP1_P1 |-> j,
   MSGTMP2_P1 |-> j, MSGTMP3_P1 |-> j, STATE0_P2 |-> j, STATE1_P2 |-> j, STATEV_P2 |-> j,
   MSGV_P2 |-> j, MSGTMP0_P2 |-> j, MSGTMP1_P2 |-> j, MSGTMP2_P2 |-> j, MSGTMP3_P2 |-> j,
   STATE0_P3 |-> j, STATE1_P3 |-> j, STATEV_P3 |-> j, MSGV_P3 |-> j, MSGTMP0_P3 |-> j,
   MSGTMP1_P3 |-> j, MSGTMP2_P3 |-> j, MSGTMP3_P3 |-> j, HASH0_SAVE_P1 |-> j, HASH1_SAVE_P1 |-> j,
   HASH0_SAVE_P2 |-> j, HASH1_SAVE_P2 |-> j, HASH0_SAVE_P3 |-> j, HASH1_SAVE_P3 |-> j]

\* the statements before the loop, block by block
rsha256_fast_x3_entry ==
  <<
    \* init values for SHA256 rounds, A-H logic
    << <<"=", "ABCD_INIT", <<"vld1q_u32", <<"adr", "abcdinit", 0>>>>>>,
       <<"=", "EFGH_INIT", <<"vld1q_u32", <<"adr", "efghinit", 0>>>>>> >>,
    \* pre-arranged values for 3rd/4th 16bytes of 1x block, SHA256 padding logic
    << <<"=", "HPAD0_CACHE", <<"vld1q_u32", <<"adr", "hpad0cache", 0>>>>>>,
       <<"=", "HPAD1_CACHE", <<"vld1q_u32", <<"adr", "hpad1cache", 0>>>>>> >>,
    \* variables to init/keep hash value through SHA256 rounds
    << <<"=", "HASH0_SAVE_P1", <<"vld1q_u32", <<"adr", "hash", 0>>>>>>,
       <<"=", "HASH1_SAVE_P1", <<"vld1q_u32", <<"adr", "hash", 16>>>>>>,
       <<"=", "HASH0_SAVE_P2", <<"vld1q_u32", <<"adr", "hash", 32>>>>>>,
       <<"=", "HASH1_SAVE_P2", <<"vld1q_u32", <<"adr", "hash", 48>>>>>>,
       <<"=", "HASH0_SAVE_P3", <<"vld1q_u32", <<"adr", "hash", 64>>>>>>,
       <<"=", "HASH1_SAVE_P3", <<"vld1q_u32", <<"adr", "hash", 80>>>>>> >>,
    \* shuffle hash bytes required by Cryptography Extensions
    << <<"=", "HASH0_SAVE_P1", <<"vreinterpretq_u32_u8", <<"vrev32q_u8", <<"vreinterpretq_u8_u32", <<"reg", "HASH0_SAVE_P1">>>>>>>>>>,
       <<"=", "HASH1_SAVE_P1", <<"vreinterpretq_u32_u8", <<"vrev32q_u8", <<"vreinterpretq_u8_u32", <<"reg", "HASH1_SAVE_P1">>>>>>>>>>,
       <<"=", "HASH0_SAVE_P2", <<"vreinterpretq_u32_u8", <<"vrev32q_u8", <<"vreinterpretq_u8_u32", <<"reg", "HASH0_SAVE_P2">>>>>>>>>>,
       <<"=", "HASH1_SAVE_P2", <<"vreinterpretq_u32_u8", <<"vrev32q_u8", <<"vreinterpretq_u8_u32", <<"reg", "HASH1_SAVE_P2">>>>>>>>>>,
       <<"=", "HASH0_SAVE_P3", <<"vreinterpretq_u32_u8", <<"vrev32q_u8", <<"vreinterpretq_u8_u32", <<"reg", "HASH0_SAVE_P3">>>>>>>>>>,
       <<"=", "HASH1_SAVE_P3", <<"vreinterpretq_u32_u8", <<"vrev32q_u8", <<"vreinterpretq_u8_u32", <<"reg", "HASH1_SAVE_P3">>>>>>>>>> >>
  >>

\* one pass of the loop, block by block
rsha256_fast_x3_loop ==
  <<
    \* init state value for SHA256 rounds
    << <<"=", "STATE0_P1", <<"reg", "ABCD_INIT">>>>,
       <<"=", "STATE0_P2", <<"reg", "ABCD_INIT">>>>,
       <<"=", "STATE0_P3", <<"reg", "ABCD_INIT">>>>,
       <<"=", "STATE1_P1", <<"reg", "EFGH_INIT">>>>,
       <<"=", "STATE1_P2", <<"reg", "EFGH_INIT">>>>,
       <<"=", "STATE1_P3", <<"reg", "EFGH_INIT">>>> >>,
    \* rounds 0-3
    << <<"=", "MSGV_P1", <<"vaddq_u32", <<"reg", "HASH0_SAVE_P1">>, <<"vld1q_u32", <<"adr", "K64", 0>>>>>>>>,
       <<"=", "MSGV_P2", <<"vaddq_u32", <<"reg", "HASH0_SAVE_P2">>, <<"vld1q_u32", <<"adr", "K64", 0>>>>>>>>,
       <<"=", "MSGV_P3", <<"vaddq_u32", <<"reg", "HASH0_SAVE_P3">>, <<"vld1q_u32", <<"adr", "K64", 0>>>>>>>>,
       <<"=", "STATEV_P1", <<"reg", "STATE0_P1">>>>,
       <<"=", "STATEV_P2", <<"reg", "STATE0_P2">>>>,
       <<"=", "STATEV_P3", <<"reg", "STATE0_P3">>>>,
       <<"=", "STATE0_P1", <<"vsha256hq_u32", <<"reg", "STATE0_P1">>, <<"reg", "STATE1_P1">>, <<"reg", "MSGV_P1">>>>>>,
       <<"=", "STATE0_P2", <<"vsha256hq_u32", <<"reg", "STATE0_P2">>, <<"reg", "STATE1_P2">>, <<"reg", "MSGV_P2">>>>>>,
       <<"=", "STATE0_P3", <<"vsha256hq_u32", <<"reg", "STATE0_P3">>, <<"reg", "STATE1_P3">>, <<"reg", "MSGV_P3">>>>>>,
       <<"=", "STATE1_P1", <<"vsha256h2q_u32", <<"reg", "STATE1_P1">>, <<"reg", "STATEV_P1">>, <<"reg", "MSGV_P1">>>>>>,
       <<"=", "STATE1_P2", <<"vsha256h2q_u32", <<"reg", "STATE1_P2">>, <<"reg", "STATEV_P2">>, <<"reg", "MSGV_P2">>>>>>,
       <<"=", "STATE1_P3", <<"vsha256h2q_u32", <<"reg", "STATE1_P3">>, <<"reg", "STATEV_P3">>, <<"reg", "MSGV_P3">>>>>>,
       <<"=", "MSGTMP0_P1", <<"vsha256su0q_u32", <<"reg", "HASH0_SAVE_P1">>, <<"reg", "HASH1_SAVE_P1">>>>>>,
       <<"=", "MSGTMP0_P2", <<"vsha256su0q_u32", <<"reg", "HASH0_SAVE_P2">>, <<"reg", "HASH1_SAVE_P2">>>>>>,
       <<"=", "MSGTMP0_P3", <<"vsha256su0q_u32", <<"reg", "HASH0_SAVE_P3">>, <<"reg", "HASH1_SAVE_P3">>>>>> >>,
    \* rounds 4-7
    << <<"=", "MSGV_P1", <<"vaddq_u32", <<"reg", "HASH1_SAVE_P1">>, <<"vld1q_u32", <<"adr", "K64", 4>>>>>>>>,
       <<"=", "MSGV_P2", <<"vaddq_u32", <<"reg", "HASH1_SAVE_P2">>, <<"vld1q_u32", <<"adr", "K64", 4>>>>>>>>,
       <<"=", "MSGV_P3", <<"vaddq_u32", <<"reg", "HASH1_SAVE_P3">>, <<"vld1q_u32", <<"adr", "K64", 4>>>>>>>>,
       <<"=", "STATEV_P1", <<"reg", "STATE0_P1">>>>,
       <<"=", "STATEV_P2", <<"reg", "STATE0_P2">>>>,
       <<"=", "STATEV_P3", <<"reg", "STATE0_P3">>>>,
       <<"=", "STATE0_P1", <<"vsha256hq_u32", <<"reg", "STATE0_P1">>, <<"reg", "STATE1_P1">>, <<"reg", "MSGV_P1">>>>>>,
       <<"=", "STATE0_P2", <<"vsha256hq_u32", <<"reg", "STATE0_P2">>, <<"reg", "STATE1_P2">>, <<"reg", "MSGV_P2">>>>>>,
       <<"=", "STATE0_P3", <<"vsha256hq_u32", <<"reg", "STATE0_P3">>, <<"reg", "STATE1_P3">>, <<"reg", "MSGV_P3">>>>>>,
       <<"=", "STATE1_P1", <<"vsha256h2q_u32", <<"reg", "STATE1_P1">>, <<"reg", "STATEV_P1">>, <<"reg", "MSGV_P1">>>>>>,
       <<"=", "STATE1_P2", <<"vsha256h2q_u32", <<"reg", "STATE1_P2">>, <<"reg", "STATEV_P2">>, <<"reg", "MSGV_P2">>>>>>,
       <<"=", "STATE1_P3", <<"vsha256h2q_u32", <<"reg", "STATE1_P3">>, <<"reg", "STATEV_P3">>, <<"reg", "MSGV_P3">>>>>>,
       <<"=", "MSGTMP0_P1", <<"vsha256su1q_u32", <<"reg", "MSGTMP0_P1">>, <<"reg", "HPAD0_CACHE">>, <<"reg", "HPAD1_CACHE">>>>>>,
       <<"=", "MSGTMP0_P2", <<"vsha256su1q_u32", <<"reg", "MSGTMP0_P2">>, <<"reg", "HPAD0_CACHE">>, <<"reg", "HPAD1_CACHE">>>>>>,
       <<"=", "MSGTMP0_P3", <<"vsha256su1q_u32", <<"reg", "MSGTMP0_P3">>, <<"reg", "HPAD0_CACHE">>, <<"reg", "HPAD1_CACHE">>>>>>,
       <<"=", "MSGTMP1_P1", <<"vsha256su0q_u32", <<"reg", "HASH1_SAVE_P1">>, <<"reg", "HPAD0_CACHE">>>>>>,
       <<"=", "MSGTMP1_P2", <<"vsha256su0q_u32", <<"reg", "HASH1_SAVE_P2">>, <<"reg", "HPAD0_CACHE">>>>>>,
       <<"=", "MSGTMP1_P3", <<"vsha256su0q_u32", <<"reg", "HASH1_SAVE_P3">>, <<"reg", "HPAD0_CACHE">>>>>> >>,
    \* rounds 8-11
    << <<"=", "MSGV_P1", <<"vaddq_u32", <<"reg", "HPAD0_CACHE">>, <<"vld1q_u32", <<"adr", "K64", 8>>>>>>>>,
       <<"=", "MSGV_P2", <<"vaddq_u32", <<"reg", "HPAD0_CACHE">>, <<"vld1q_u32", <<"adr", "K64", 8>>>>>>>>,
       <<"=", "MSGV_P3", <<"vaddq_u32", <<"reg", "HPAD0_CACHE">>, <<"vld1q_u32", <<"adr", "K64", 8>>>>>>>>,
       <<"=", "STATEV_P1", <<"reg", "STATE0_P1">>>>,
       <<"=", "STATEV_P2", <<"reg", "STATE0_P2">>>>,
       <<"=", "STATEV_P3", <<"reg", "STATE0_P3">>>>,
       <<"=", "STATE0_P1", <<"vsha256hq_u32", <<"reg", "STATE0_P1">>, <<"reg", "STATE1_P1">>, <<"reg", "MSGV_P1">>>>>>,
       <<"=", "STATE0_P2", <<"vsha256hq_u32", <<"reg", "STATE0_P2">>, <<"reg", "STATE1_P2">>, <<"reg", "MSGV_P2">>>>>>,
       <<"=", "STATE0_P3", <<"vsha256hq_u32", <<"reg", "STATE0_P3">>, <<"reg", "STATE1_P3">>, <<"reg", "MSGV_P3">>>>>>,
       <<"=", "STATE1_P1", <<"vsha256h2q_u32", <<"reg", "STATE1_P1">>, <<"reg", "STATEV_P1">>, <<"reg", "MSGV_P1">>>>>>,
       <<"=", "STATE1_P2", <<"vsha256h2q_u32", <<"reg", "STATE1_P2">>, <<"reg", "STATEV_P2">>, <<"reg", "MSGV_P2">>>>>>,
       <<"=", "STATE1_P3", <<"vsha256h2q_u32", <<"reg", "STATE1_P3">>, <<"reg", "STATEV_P3">>, <<"reg", "MSGV_P3">>>>>>,
       <<"=", "MSGTMP1_P1", <<"vsha256su1q_u32", <<"reg", "MSGTMP1_P1">>, <<"reg", "HPAD1_CACHE">>, <<"reg", "MSGTMP0_P1">>>>>>,
       <<"=", "MSGTMP1_P2", <<"vsha256su1q_u32", <<"reg", "MSGTMP1_P2">>, <<"reg", "HPAD1_CACHE">>, <<"reg", "MSGTMP0_P2">>>>>>,
       <<"=", "MSGTMP1_P3", <<"vsha256su1q_u32", <<"reg", "MSGTMP1_P3">>, <<"reg", "HPAD1_CACHE">>, <<"reg", "MSGTMP0_P3">>>>>>,
       <<"=", "MSGTMP2_P1", <<"reg", "HPAD0_CACHE">>>>,
       <<"=", "MSGTMP2_P2", <<"reg", "HPAD0_CACHE">>>>,
       <<"=", "MSGTMP2_P3", <<"reg", "HPAD0_CACHE">>>> >>,
    \* rounds 12-15
    << <<"=", "MSGV_P1", <<"vaddq_u32", <<"reg", "HPAD1_CACHE">>, <<"vld1q_u32", <<"adr", "K64", 12>>>>>>>>,
       <<"=", "MSGV_P2", <<"vaddq_u32", <<"reg", "HPAD1_CACHE">>, <<"vld1q_u32", <<"adr", "K64", 12>>>>>>>>,
       <<"=", "MSGV_P3", <<"vaddq_u32", <<"reg", "HPAD1_CACHE">>, <<"vld1q_u32", <<"adr", "K64", 12>>>>>>>>,
       <<"=", "STATEV_P1", <<"reg", "STATE0_P1">>>>,
       <<"=", "STATEV_P2", <<"reg", "STATE0_P2">>>>,
       <<"=", "STATEV_P3", <<"reg", "STATE0_P3">>>>,
       <<"=", "STATE0_P1", <<"vsha256hq_u32", <<"reg", "STATE0_P1">>, <<"reg", "STATE1_P1">>, <<"reg", "MSGV_P1">>>>>>,
       <<"=", "STATE0_P2", <<"vsha256hq_u32", <<"reg", "STATE0_P2">>, <<"reg", "STATE1_P2">>, <<"reg", "MSGV_P2">>>>>>,
       <<"=", "STATE0_P3", <<"vsha256hq_u32", <<"reg", "STATE0_P3">>, <<"reg", "STATE1_P3">>, <<"reg", "MSGV_P3">>>>>>,
       <<"=", "STATE1_P1", <<"vsha256h2q_u32", <<"reg", "STATE1_P1">>, <<"reg", "STATEV_P1">>, <<"reg", "MSGV_P1">>>>>>,
       <<"=", "STATE1_P2", <<"vsha256h2q_u32", <<"reg", "STATE1_P2">>, <<"reg", "STATEV_P2">>, <<"reg", "MSGV_P2">>>>>>,
       <<"=", "STATE1_P3", <<"vsha256h2q_u32", <<"reg", "STATE1_P3">>, <<"reg", "STATEV_P3">>, <<"reg", "MSGV_P3">>>>>>,
       <<"=", "MSGTMP2_P1", <<"vsha256su1q_u32", <<"reg", "MSGTMP2_P1">>, <<"reg", "MSGTMP0_P1">>, <<"reg", "MSGTMP1_P1">>>>>>,
       <<"=", "MSGTMP2_P2", <<"vsha256su1q_u32", <<"reg", "MSGTMP2_P2">>, <<"reg", "MSGTMP0_P2">>, <<"reg", "MSGTMP1_P2">>>>>>,
       <<"=", "MSGTMP2_P3", <<"vsha256su1q_u32", <<"reg", "MSGTMP2_P3">>, <<"reg", "MSGTMP0_P3">>, <<"reg", "MSGTMP1_P3">>>>>>,
       <<"=", "MSGTMP3_P1", <<"vsha256su0q_u32", <<"reg", "HPAD1_CACHE">>, <<"reg", "MSGTMP0_P1">>>>>>,
       <<"=", "MSGTMP3_P2", <<"vsha256su0q_u32", <<"reg", "HPAD1_CACHE">>, <<"reg", "MSGTMP0_P2">>>>>>,
       <<"=", "MSGTMP3_P3", <<"vsha256su0q_u32", <<"reg", "HPAD1_CACHE">>, <<"reg", "MSGTMP0_P3">>>>>> >>,
    \* rounds 16-19, 20-23, 24-27, 28-31
    ARM_SHA256ROUND_X3("MSGV_P1", "MSGTMP0_P1", "MSGTMP1_P1", "MSGTMP2_P1", "MSGTMP3_P1", "STATEV_P1", "STATE0_P1",
                       "STATE1_P1", "MSGV_P2", "MSGTMP0_P2", "MSGTMP1_P2", "MSGTMP2_P2", "MSGTMP3_P2", "STATEV_P2",
                       "STATE0_P2", "STATE1_P2", "MSGV_P3", "MSGTMP0_P3", "MSGTMP1_P3", "MSGTMP2_P3", "MSGTMP3_P3",
                       "STATEV_P3", "STATE0_P3", "STATE1_P3", <<"adr", "K64", 16>>),
    ARM_SHA256ROUND_X3("MSGV_P1", "MSGTMP1_P1", "MSGTMP2_P1", "MSGTMP3_P1", "MSGTMP0_P1", "STATEV_P1", "STATE0_P1",
                       "STATE1_P1", "MSGV_P2", "MSGTMP1_P2", "MSGTMP2_P2", "MSGTMP3_P2", "MSGTMP0_P2", "STATEV_P2",
                       "STATE0_P2", "STATE1_P2", "MSGV_P3", "MSGTMP1_P3", "MSGTMP2_P3", "MSGTMP3_P3", "MSGTMP0_P3",
                       "STATEV_P3", "STATE0_P3", "STATE1_P3", <<"adr", "K64", 20>>),
    ARM_SHA256ROUND_X3("MSGV_P1", "MSGTMP2_P1", "MSGTMP3_P1", "MSGTMP0_P1", "MSGTMP1_P1", "STATEV_P1", "STATE0_P1",
                       "STATE1_P1", "MSGV_P2", "MSGTMP2_P2", "MSGTMP3_P2", "MSGTMP0_P2", "MSGTMP1_P2", "STATEV_P2",
                       "STATE0_P2", "STATE1_P2", "MSGV_P3", "MSGTMP2_P3", "MSGTMP3_P3", "MSGTMP0_P3", "MSGTMP1_P3",
                       "STATEV_P3", "STATE0_P3", "STATE1_P3", <<"adr", "K64", 24>>),
    ARM_SHA256ROUND_X3("MSGV_P1", "MSGTMP3_P1", "MSGTMP0_P1", "MSGTMP1_P1", "MSGTMP2_P1", "STATEV_P1", "STATE0_P1",
                       "STATE1_P1", "MSGV_P2", "MSGTMP3_P2", "MSGTMP0_P2", "MSGTMP1_P2", "MSGTMP2_P2", "STATEV_P2",
                       "STATE0_P2", "STATE1_P2", "MSGV_P3", "MSGTMP3_P3", "MSGTMP0_P3", "MSGTMP1_P3", "MSGTMP2_P3",
                       "STATEV_P3", "STATE0_P3", "STATE1_P3", <<"adr", "K64", 28>>),
    \* rounds 32-35, 36-39, 40-43, 44-47
    ARM_SHA256ROUND_X3("MSGV_P1", "MSGTMP0_P1", "MSGTMP1_P1", "MSGTMP2_P1", "MSGTMP3_P1", "STATEV_P1", "STATE0_P1",
                       "STATE1_P1", "MSGV_P2", "MSGTMP0_P2", "MSGTMP1_P2", "MSGTMP2_P2", "MSGTMP3_P2", "STATEV_P2",
                       "STATE0_P2", "STATE1_P2", "MSGV_P3", "MSGTMP0_P3", "MSGTMP1_P3", "MSGTMP2_P3", "MSGTMP3_P3",
                       "STATEV_P3", "STATE0_P3", "STATE1_P3", <<"adr", "K64", 32>>),
    ARM_SHA256ROUND_X3("MSGV_P1", "MSGTMP1_P1", "MSGTMP2_P1", "MSGTMP3_P1", "MSGTMP0_P1", "STATEV_P1", "STATE0_P1",
                       "STATE1_P1", "MSGV_P2", "MSGTMP1_P2", "MSGTMP2_P2", "MSGTMP3_P2", "MSGTMP0_P2", "STATEV_P2",
                       "STATE0_P2", "STATE1_P2", "MSGV_P3", "MSGTMP1_P3", "MSGTMP2_P3", "MSGTMP3_P3", "MSGTMP0_P3",
                       "STATEV_P3", "STATE0_P3", "STATE1_P3", <<"adr", "K64", 36>>),
    ARM_SHA256ROUND_X3("MSGV_P1", "MSGTMP2_P1", "MSGTMP3_P1", "MSGTMP0_P1", "MSGTMP1_P1", "STATEV_P1", "STATE0_P1",
                       "STATE1_P1", "MSGV_P2", "MSGTMP2_P2", "MSGTMP3_P2", "MSGTMP0_P2", "MSGTMP1_P2", "STATEV_P2",
                       "STATE0_P2", "STATE1_P2", "MSGV_P3", "MSGTMP2_P3", "MSGTMP3_P3", "MSGTMP0_P3", "MSGTMP1_P3",
                       "STATEV_P3", "STATE0_P3", "STATE1_P3", <<"adr", "K64", 40>>),
    ARM_SHA256ROUND_X3("MSGV_P1", "MSGTMP3_P1", "MSGTMP0_P1", "MSGTMP1_P1", "MSGTMP2_P1", "STATEV_P1", "STATE0_P1",
                       "STATE1_P1", "MSGV_P2", "MSGTMP3_P2", "MSGTMP0_P2", "MSGTMP1_P2", "MSGTMP2_P2", "STATEV_P2",
                       "STATE0_P2", "STATE1_P2", "MSGV_P3", "MSGTMP3_P3", "MSGTMP0_P3", "MSGTMP1_P3", "MSGTMP2_P3",
                       "STATEV_P3", "STATE0_P3", "STATE1_P3", <<"adr", "K64", 44>>),
    \* rounds 48-51
    << <<"=", "MSGV_P1", <<"vaddq_u32", <<"reg", "MSGTMP0_P1">>, <<"vld1q_u32", <<"adr", "K64", 48>>>>>>>>,
       <<"=", "MSGV_P2", <<"vaddq_u32", <<"reg", "MSGTMP0_P2">>, <<"vld1q_u32", <<"adr", "K64", 48>>>>>>>>,
       <<"=", "MSGV_P3", <<"vaddq_u32", <<"reg", "MSGTMP0_P3">>, <<"vld1q_u32", <<"adr", "K64", 48>>>>>>>>,
       <<"=", "STATEV_P1", <<"reg", "STATE0_P1">>>>,
       <<"=", "STATEV_P2", <<"reg", "STATE0_P2">>>>,
       <<"=", "STATEV_P3", <<"reg", "STATE0_P3">>>>,
       <<"=", "STATE0_P1", <<"vsha256hq_u32", <<"reg", "STATE0_P1">>, <<"reg", "STATE1_P1">>, <<"reg", "MSGV_P1">>>>>>,
       <<"=", "STATE0_P2", <<"vsha256hq_u32", <<"reg", "STATE0_P2">>, <<"reg", "STATE1_P2">>, <<"reg", "MSGV_P2">>>>>>,
       <<"=", "STATE0_P3", <<"vsha256hq_u32", <<"reg", "STATE0_P3">>, <<"reg", "STATE1_P3">>, <<"reg", "MSGV_P3">>>>>>,
       <<"=", "STATE1_P1", <<"vsha256h2q_u32", <<"reg", "STATE1_P1">>, <<"reg", "STATEV_P1">>, <<"reg", "MSGV_P1">>>>>>,
       <<"=", "STATE1_P2", <<"vsha256h2q_u32", <<"reg", "STATE1_P2">>, <<"reg", "STATEV_P2">>, <<"reg", "MSGV_P2">>>>>>,
       <<"=", "STATE1_P3", <<"vsha256h2q_u32", <<"reg", "STATE1_P3">>, <<"reg", "STATEV_P3">>, <<"reg", "MSGV_P3">>>>>>,
       <<"=", "MSGTMP3_P1", <<"vsha256su1q_u32", <<"reg", "MSGTMP3_P1">>, <<"reg", "MSGTMP1_P1">>, <<"reg", "MSGTMP2_P1">>>>>>,
       <<"=", "MSGTMP3_P2", <<"vsha256su1q_u32", <<"reg", "MSGTMP3_P2">>, <<"reg", "MSGTMP1_P2">>, <<"reg", "MSGTMP2_P2">>>>>>,
       <<"=", "MSGTMP3_P3", <<"vsha256su1q_u32", <<"reg", "MSGTMP3_P3">>, <<"reg", "MSGTMP1_P3">>, <<"reg", "MSGTMP2_P3">>>>>> >>,
    \* rounds 52-55
    << <<"=", "MSGV_P1", <<"vaddq_u32", <<"reg", "MSGTMP1_P1">>, <<"vld1q_u32", <<"adr", "K64", 52>>>>>>>>,
       <<"=", "MSGV_P2", <<"vaddq_u32", <<"reg", "MSGTMP1_P2">>, <<"vld1q_u32", <<"adr", "K64", 52>>>>>>>>,
       <<"=", "MSGV_P3", <<"vaddq_u32", <<"reg", "MSGTMP1_P3">>, <<"vld1q_u32", <<"adr", "K64", 52>>>>>>>>,
       <<"=", "STATEV_P1", <<"reg", "STATE0_P1">>>>,
       <<"=", "STATEV_P2", <<"reg", "STATE0_P2">>>>,
       <<"=", "STATEV_P3", <<"reg", "STATE0_P3">>>>,
       <<"=", "STATE0_P1", <<"vsha256hq_u32", <<"reg", "STATE0_P1">>, <<"reg", "STATE1_P1">>, <<"reg", "MSGV_P1">>>>>>,
       <<"=", "STATE0_P2", <<"vsha256hq_u32", <<"reg", "STATE0_P2">>, <<"reg", "STATE1_P2">>, <<"reg", "MSGV_P2">>>>>>,
       <<"=", "STATE0_P3", <<"vsha256hq_u32", <<"reg", "STATE0_P3">>, <<"reg", "STATE1_P3">>, <<"reg", "MSGV_P3">>>>>>,
       <<"=", "STATE1_P1", <<"vsha256h2q_u32", <<"reg", "STATE1_P1">>, <<"reg", "STATEV_P1">>, <<"reg", "MSGV_P1">>>>>>,
       <<"=", "STATE1_P2", <<"vsha256h2q_u32", <<"reg", "STATE1_P2">>, <<"reg", "STATEV_P2">>, <<"reg", "MSGV_P2">>>>>>,
       <<"=", "STATE1_P3", <<"vsha256h2q_u32", <<"reg", "STATE1_P3">>, <<"reg", "STATEV_P3">>, <<"reg", "MSGV_P3">>>>>> >>,
    \* rounds 56-59
    << <<"=", "MSGV_P1", <<"vaddq_u32", <<"reg", "MSGTMP2_P1">>, <<"vld1q_u32", <<"adr", "K64", 56>>>>>>>>,
       <<"=", "MSGV_P2", <<"vaddq_u32", <<"reg", "MSGTMP2_P2">>, <<"vld1q_u32", <<"adr", "K64", 56>>>>>>>>,
       <<"=", "MSGV_P3", <<"vaddq_u32", <<"reg", "MSGTMP2_P3">>, <<"vld1q_u32", <<"adr", "K64", 56>>>>>>>>,
       <<"=", "STATEV_P1", <<"reg", "STATE0_P1">>>>,
       <<"=", "STATEV_P2", <<"reg", "STATE0_P2">>>>,
       <<"=", "STATEV_P3", <<"reg", "STATE0_P3">>>>,
       <<"=", "STATE0_P1", <<"vsha256hq_u32", <<"reg", "STATE0_P1">>, <<"reg", "STATE1_P1">>, <<"reg", "MSGV_P1">>>>>>,
       <<"=", "STATE0_P2", <<"vsha256hq_u32", <<"reg", "STATE0_P2">>, <<"reg", "STATE1_P2">>, <<"reg", "MSGV_P2">>>>>>,
       <<"=", "STATE0_P3", <<"vsha256hq_u32", <<"reg", "STATE0_P3">>, <<"reg", "STATE1_P3">>, <<"reg", "MSGV_P3">>>>>>,
       <<"=", "STATE1_P1", <<"vsha256h2q_u32", <<"reg", "STATE1_P1">>, <<"reg", "STATEV_P1">>, <<"reg", "MSGV_P1">>>>>>,
       <<"=", "STATE1_P2", <<"vsha256h2q_u32", <<"reg", "STATE1_P2">>, <<"reg", "STATEV_P2">>, <<"reg", "MSGV_P2">>>>>>,
       <<"=", "STATE1_P3", <<"vsha256h2q_u32", <<"reg", "STATE1_P3">>, <<"reg", "STATEV_P3">>, <<"reg", "MSGV_P3">>>>>> >>,
    \* rounds 60-63
    << <<"=", "MSGV_P1", <<"vaddq_u32", <<"reg", "MSGTMP3_P1">>, <<"vld1q_u32", <<"adr", "K64", 60>>>>>>>>,
       <<"=", "MSGV_P2", <<"vaddq_u32", <<"reg", "MSGTMP3_P2">>, <<"vld1q_u32", <<"adr", "K64", 60>>>>>>>>,
       <<"=", "MSGV_P3", <<"vaddq_u32", <<"reg", "MSGTMP3_P3">>, <<"vld1q_u32", <<"adr", "K64", 60>>>>>>>>,
       <<"=", "STATEV_P1", <<"reg", "STATE0_P1">>>>,
       <<"=", "STATEV_P2", <<"reg", "STATE0_P2">>>>,
       <<"=", "STATEV_P3", <<"reg", "STATE0_P3">>>>,
       <<"=", "STATE0_P1", <<"vsha256hq_u32", <<"reg", "STATE0_P1">>, <<"reg", "STATE1_P1">>, <<"reg", "MSGV_P1">>>>>>,
       <<"=", "STATE0_P2", <<"vsha256hq_u32", <<"reg", "STATE0_P2">>, <<"reg", "STATE1_P2">>, <<"reg", "MSGV_P2">>>>>>,
       <<"=", "STATE0_P3", <<"vsha256hq_u32", <<"reg", "STATE0_P3">>, <<"reg", "STATE1_P3">>, <<"reg", "MSGV_P3">>>>>>,
       <<"=", "STATE1_P1", <<"vsha256h2q_u32", <<"reg", "STATE1_P1">>, <<"reg", "STATEV_P1">>, <<"reg", "MSGV_P1">>>>>>,
       <<"=", "STATE1_P2", <<"vsha256h2q_u32", <<"reg", "STATE1_P2">>, <<"reg", "STATEV_P2">>, <<"reg", "MSGV_P2">>>>>>,
       <<"=", "STATE1_P3", <<"vsha256h2q_u32", <<"reg", "STATE1_P3">>, <<"reg", "STATEV_P3">>, <<"reg", "MSGV_P3">>>>>> >>,
    \* add init state to current state
    << <<"=", "HASH0_SAVE_P1", <<"vaddq_u32", <<"reg", "STATE0_P1">>, <<"reg", "ABCD_INIT">>>>>>,
       <<"=", "HASH0_SAVE_P2", <<"vaddq_u32", <<"reg", "STATE0_P2">>, <<"reg", "ABCD_INIT">>>>>>,
       <<"=", "HASH0_SAVE_P3", <<"vaddq_u32", <<"reg", "STATE0_P3">>, <<"reg", "ABCD_INIT">>>>>>,
       <<"=", "HASH1_SAVE_P1", <<"vaddq_u32", <<"reg", "STATE1_P1">>, <<"reg", "EFGH_INIT">>>>>>,
       <<"=", "HASH1_SAVE_P2", <<"vaddq_u32", <<"reg", "STATE1_P2">>, <<"reg", "EFGH_INIT">>>>>>,
       <<"=", "HASH1_SAVE_P3", <<"vaddq_u32", <<"reg", "STATE1_P3">>, <<"reg", "EFGH_INIT">>>>>> >>
  >>

\* the statements after the loop, block by block
rsha256_fast_x3_exit ==
  <<
    \* shuffle Cryptography Extensions hash value back
    << <<"=", "HASH0_SAVE_P1", <<"vreinterpretq_u32_u8", <<"vrev32q_u8", <<"vreinterpretq_u8_u32", <<"reg", "HASH0_SAVE_P1">>>>>>>>>>,
       <<"=", "HASH1_SAVE_P1", <<"vreinterpretq_u32_u8", <<"vrev32q_u8", <<"vreinterpretq_u8_u32", <<"reg", "HASH1_SAVE_P1">>>>>>>>>>,
       <<"=", "HASH0_SAVE_P2", <<"vreinterpretq_u32_u8", <<"vrev32q_u8", <<"vreinterpretq_u8_u32", <<"reg", "HASH0_SAVE_P2">>>>>>>>>>,
       <<"=", "HASH1_SAVE_P2", <<"vreinterpretq_u32_u8", <<"vrev32q_u8", <<"vreinterpretq_u8_u32", <<"reg", "HASH1_SAVE_P2">>>>>>>>>>,
       <<"=", "HASH0_SAVE_P3", <<"vreinterpretq_u32_u8", <<"vrev32q_u8", <<"vreinterpretq_u8_u32", <<"reg", "HASH0_SAVE_P3">>>>>>>>>>,
       <<"=", "HASH1_SAVE_P3", <<"vreinterpretq_u32_u8", <<"vrev32q_u8", <<"vreinterpretq_u8_u32", <<"reg", "HASH1_SAVE_P3">>>>>>>>>> >>,
    \* copy/return final hash value into *hash
    << <<"store", <<"adr", "hash", 0>>, <<"reg", "HASH0_SAVE_P1">>>>,
       <<"store", <<"adr", "hash", 16>>, <<"reg", "HASH1_SAVE_P1">>>>,
       <<"store", <<"adr", "hash", 32>>, <<"reg", "HASH0_SAVE_P2">>>>,
       <<"store", <<"adr", "hash", 48>>, <<"reg", "HASH1_SAVE_P2">>>>,
       <<"store", <<"adr", "hash", 64>>, <<"reg", "HASH0_SAVE_P3">>>>,
       <<"store", <<"adr", "hash", 80>>, <<"reg", "HASH1_SAVE_P3">>>> >>
  >>

\* ----------------------------------------------------------------------
\* rsha256_fast_x4 (rsha256pl_fast_arm.cxx, lines 658-1001)

\* #define SHA256ROUND_X4
ARM_SHA256ROUND_X4(msgv_p1, msgtmp0_p1, msgtmp1_p1, msgtmp2_p1, msgtmp3_p1, statev_p1, state0_p1, state1_p1, msgv_p2, msgtmp0_p2, msgtmp1_p2, msgtmp2_p2, msgtmp3_p2, statev_p2, state0_p2, state1_p2, msgv_p3, msgtmp0_p3, msgtmp1_p3, msgtmp2_p3, msgtmp3_p3, statev_p3, state0_p3, state1_p3, msgv_p4, msgtmp0_p4, msgtmp1_p4, msgtmp2_p4, msgtmp3_p4, statev_p4, state0_p4, state1_p4, kvalue) ==
  << <<"=", msgv_p1, <<"vaddq_u32", <<"reg", msgtmp0_p1>>, <<"vld1q_u32", kvalue>>>>>>,
     <<"=", msgv_p2, <<"vaddq_u32", <<"reg", msgtmp0_p2>>, <<"vld1q_u32", kvalue>>>>>>,
     <<"=", msgv_p3, <<"vaddq_u32", <<"reg", msgtmp0_p3>>, <<"vld1q_u32", kvalue>>>>>>,
     <<"=", msgv_p4, <<"vaddq_u32", <<"reg", msgtmp0_p4>>, <<"vld1q_u32", kvalue>>>>>>,
     <<"=", statev_p1, <<"reg", state0_p1>>>>,
     <<"=", statev_p2, <<"reg", state0_p2>>>>,
     <<"=", statev_p3, <<"reg", state0_p3>>>>,
     <<"=", statev_p4, <<"reg", state0_p4>>>>,
     <<"=", state0_p1, <<"vsha256hq_u32", <<"reg", state0_p1>>, <<"reg", state1_p1>>, <<"reg", msgv_p1>>>>>>,
     <<"=", state0_p2, <<"vsha256hq_u32", <<"reg", state0_p2>>, <<"reg", state1_p2>>, <<"reg", msgv_p2>>>>>>,
     <<"=", state0_p3, <<"vsha256hq_u32", <<"reg", state0_p3>>, <<"reg", state1_p3>>, <<"reg", msgv_p3>>>>>>,
     <<"=", state0_p4, <<"vsha256hq_u32", <<"reg", state0_p4>>, <<"reg", state1_p4>>, <<"reg", msgv_p4>>>>>>,
     <<"=", state1_p1, <<"vsha256h2q_u32", <<"reg", state1_p1>>, <<"reg", statev_p1>>, <<"reg", msgv_p1>>>>>>,
     <<"=", state1_p2, <<"vsha256h2q_u32", <<"reg", state1_p2>>, <<"reg", statev_p2>>, <<"reg", msgv_p2>>>>>>,
     <<"=", state1_p3, <<"vsha256h2q_u32", <<"reg", state1_p3>>, <<"reg", statev_p3>>, <<"reg", msgv_p3>>>>>>,
     <<"=", state1_p4, <<"vsha256h2q_u32", <<"reg", state1_p4>>, <<"reg", statev_p4>>, <<"reg", msgv_p4>>>>>>,
     <<"=", msgtmp3_p1, <<"vsha256su1q_u32", <<"reg", msgtmp3_p1>>, <<"reg", msgtmp1_p1>>, <<"reg", msgtmp2_p1>>>>>>,
     <<"=", msgtmp3_p2, <<"vsha256su1q_u32", <<"reg", msgtmp3_p2>>, <<"reg", msgtmp1_p2>>, <<"reg", msgtmp2_p2>>>>>>,
     <<"=", msgtmp3_p3, <<"vsha256su1q_u32", <<"reg", msgtmp3_p3>>, <<"reg", msgtmp1_p3>>, <<"reg", msgtmp2_p3>>>>>>,
     <<"=", msgtmp3_p4, <<"vsha256su1q_u32", <<"reg", msgtmp3_p4>>, <<"reg", msgtmp1_p4>>, <<"reg", msgtmp2_p4>>>>>>,
     <<"=", msgtmp0_p1, <<"vsha256su0q_u32", <<"reg", msgtmp0_p1>>, <<"reg", msgtmp1_p1>>>>>>,
     <<"=", msgtmp0_p2, <<"vsha256su0q_u32", <<"reg", msgtmp0_p2>>, <<"reg", msgtmp1_p2>>>>>>,
     <<"=", msgtmp0_p3, <<"vsha256su0q_u32", <<"reg", msgtmp0_p3>>, <<"reg", msgtmp1_p3>>>>>>,
     <<"=", msgtmp0_p4, <<"vsha256su0q_u32", <<"reg", msgtmp0_p4>>, <<"reg", msgtmp1_p4>>>>>> >>

\* the vector locals, all holding j
rsha256_fast_x4_locals(j) ==
  [ABCD_INIT |-> j, EFGH_INIT |-> j, HPAD0_CACHE |-> j, HPAD1_CACHE |-> j, STATE0_P1 |-> j,
   STATE1_P1 |-> j, STATEV_P1 |-> j, MSGV_P1 |-> j, MSGTMP0_P1 |-> j, MSGTMP1_P1 |-> j,
   MSGTMP2_P1 |-> j, MSGTMP3_P1 |-> j, STATE0_P2 |-> j, STATE1_P2 |-> j, STATEV_P2 |-> j,
   MSGV_P2 |-> j, MSGTMP0_P2 |-> j, MSGTMP1_P2 |-> j, MSGTMP2_P2 |-> j, MSGTMP3_P2 |-> j,
   STATE0_P3 |-> j, STATE1_P3 |-> j, STATEV_P3 |-> j, MSGV_P3 |-> j, MSGTMP0_P3 |-> j,
   MSGTMP1_P3 |-> j, MSGTMP2_P3 |-> j, MSGTMP3_P3 |-> j, STATE0_P4 |-> j, STATE1_P4 |-> j,
   STATEV_P4 |-> j, MSGV_P4 |-> j, MSGTMP0_P4 |-> j, MSGTMP1_P4 |-> j, MSGTMP2_P4 |-> j,
   MSGTMP3_P4 |-> j, HASH0_SAVE_P1 |-> j, HASH1_SAVE_P1 |-> j, HASH0_SAVE_P2 |-> j,
   HASH1_SAVE_P2 |-> j, HASH0_SAVE_P3 |-> j, HASH1_SAVE_P3 |-> j, HASH0_SAVE_P4 |-> j,
   HASH1_SAVE_P4 |-> j]

\* the statements before the loop, block by block
rsha256_fast_x4_entry ==
  <<
    \* init values for SHA256 rounds, A-H logic
    << <<"=", "ABCD_INIT", <<"vld1q_u32", <<"adr", "abcdinit", 0>>>>>>,
       <<"=", "EFGH_INIT", <<"vld1q_u32", <<"adr", "efghinit", 0>>>>>> >>,
    \* pre-arranged values for 3rd/4th 16bytes of 1x block, SHA256 padding logic
    << <<"=", "HPAD0_CACHE", <<"vld1q_u32", <<"adr", "hpad0cache", 0>>>>>>,
       <<"=", "HPAD1_CACHE", <<"vld1q_u32", <<"adr", "hpad1cache", 0>>>>>> >>,
    \* variables to init/keep hash value through SHA256 rounds
    << <<"=", "HASH0_SAVE_P1", <<"vld1q_u32", <<"adr", "hash", 0>>>>>>,
       <<"=", "HASH1_SAVE_P1", <<"vld1q_u32", <<"adr", "hash", 16>>>>>>,
       <<"=", "HASH0_SAVE_P2", <<"vld1q_u32", <<"adr", "hash", 32>>>>>>,
       <<"=", "HASH1_SAVE_P2", <<"vld1q_u32", <<"adr", "hash", 48>>>>>>,
       <<"=", "HASH0_SAVE_P3", <<"vld1q_u32", <<"adr", "hash", 64>>>>>>,
       <<"=", "HASH1_SAVE_P3", <<"vld1q_u32", <<"adr", "hash", 80>>>>>>,
       <<"=", "HASH0_SAVE_P4", <<"vld1q_u32", <<"adr", "hash", 96>>>>>>,
       <<"=", "HASH1_SAVE_P4", <<"vld1q_u32", <<"adr", "hash", 112>>>>>> >>,
    \* shuffle hash bytes required by Cryptography Extensions
    << <<"=", "HASH0_SAVE_P1", <<"vreinterpretq_u32_u8", <<"vrev32q_u8", <<"vreinterpretq_u8_u32", <<"reg", "HASH0_SAVE_P1">>>>>>>>>>,
       <<"=", "HASH1_SAVE_P1", <<"vreinterpretq_u32_u8", <<"vrev32q_u8", <<"vreinterpretq_u8_u32", <<"reg", "HASH1_SAVE_P1">>>>>>>>>>,
       <<"=", "HASH0_SAVE_P2", <<"vreinterpretq_u32_u8", <<"vrev32q_u8", <<"vreinterpretq_u8_u32", <<"reg", "HASH0_SAVE_P2">>>>>>>>>>,
       <<"=", "HASH1_SAVE_P2", <<"vreinterpretq_u32_u8", <<"vrev32q_u8", <<"vreinterpretq_u8_u32", <<"reg", "HASH1_SAVE_P2">>>>>>>>>>,
       <<"=", "HASH0_SAVE_P3", <<"vreinterpretq_u32_u8", <<"vrev32q_u8", <<"vreinterpretq_u8_u32", <<"reg", "HASH0_SAVE_P3">>>>>>>>>>,
       <<"=", "HASH1_SAVE_P3", <<"vreinterpretq_u32_u8", <<"vrev32q_u8", <<"vreinterpretq_u8_u32", <<"reg", "HASH1_SAVE_P3">>>>>>>>>>,
       <<"=", "HASH0_SAVE_P4", <<"vreinterpretq_u32_u8", <<"vrev32q_u8", <<"vreinterpretq_u8_u32", <<"reg", "HASH0_SAVE_P4">>>>>>>>>>,
       <<"=", "HASH1_SAVE_P4", <<"vreinterpretq_u32_u8", <<"vrev32q_u8", <<"vreinterpretq_u8_u32", <<"reg", "HASH1_SAVE_P4">>>>>>>>>> >>
  >>

\* one pass of the loop, block by block
rsha256_fast_x4_loop ==
  <<
    \* init state value for SHA256 rounds
    << <<"=", "STATE0_P1", <<"reg", "ABCD_INIT">>>>,
       <<"=", "STATE0_P2", <<"reg", "ABCD_INIT">>>>,
       <<"=", "STATE0_P3", <<"reg", "ABCD_INIT">>>>,
       <<"=", "STATE0_P4", <<"reg", "ABCD_INIT">>>>,
       <<"=", "STATE1_P1", <<"reg", "EFGH_INIT">>>>,
       <<"=", "STATE1_P2", <<"reg", "EFGH_INIT">>>>,
       <<"=", "STATE1_P3", <<"reg", "EFGH_INIT">>>>,
       <<"=", "STATE1_P4", <<"reg", "EFGH_INIT">>>> >>,
    \* rounds 0-3
    << <<"=", "MSGV_P1", <<"vaddq_u32", <<"reg", "HASH0_SAVE_P1">>, <<"vld1q_u32", <<"adr", "K64", 0>>>>>>>>,
       <<"=", "MSGV_P2", <<"vaddq_u32", <<"reg", "HASH0_SAVE_P2">>, <<"vld1q_u32", <<"adr", "K64", 0>>>>>>>>,
       <<"=", "MSGV_P3", <<"vaddq_u32", <<"reg", "HASH0_SAVE_P3">>, <<"vld1q_u32", <<"adr", "K64", 0>>>>>>>>,
       <<"=", "MSGV_P4", <<"vaddq_u32", <<"reg", "HASH0_SAVE_P4">>, <<"vld1q_u32", <<"adr", "K64", 0>>>>>>>>,
       <<"=", "STATEV_P1", <<"reg", "STATE0_P1">>>>,
       <<"=", "STATEV_P2", <<"reg", "STATE0_P2">>>>,
       <<"=", "STATEV_P3", <<"reg", "STATE0_P3">>>>,
       <<"=", "STATEV_P4", <<"reg", "STATE0_P4">>>>,
       <<"=", "STATE0_P1", <<"vsha256hq_u32", <<"reg", "STATE0_P1">>, <<"reg", "STATE1_P1">>, <<"reg", "MSGV_P1">>>>>>,
       <<"=", "STATE0_P2", <<"vsha256hq_u32", <<"reg", "STATE0_P2">>, <<"reg", "STATE1_P2">>, <<"reg", "MSGV_P2">>>>>>,
       <<"=", "STATE0_P3", <<"vsha256hq_u32", <<"reg", "STATE0_P3">>, <<"reg", "STATE1_P3">>, <<"reg", "MSGV_P3">>>>>>,
       <<"=", "STATE0_P4", <<"vsha256hq_u32", <<"reg", "STATE0_P4">>, <<"reg", "STATE1_P4">>, <<"reg", "MSGV_P4">>>>>>,
       <<"=", "STATE1_P1", <<"vsha256h2q_u32", <<"reg", "STATE1_P1">>, <<"reg", "STATEV_P1">>, <<"reg", "MSGV_P1">>>>>>,
       <<"=", "STATE1_P2", <<"vsha256h2q_u32", <<"reg", "STATE1_P2">>, <<"reg", "STATEV_P2">>, <<"reg", "MSGV_P2">>>>>>,
       <<"=", "STATE1_P3", <<"vsha256h2q_u32", <<"reg", "STATE1_P3">>, <<"reg", "STATEV_P3">>, <<"reg", "MSGV_P3">>>>>>,
       <<"=", "STATE1_P4", <<"vsha256h2q_u32", <<"reg", "STATE1_P4">>, <<"reg", "STATEV_P4">>, <<"reg", "MSGV_P4">>>>>>,
       <<"=", "MSGTMP0_P1", <<"vsha256su0q_u32", <<"reg", "HASH0_SAVE_P1">>, <<"reg", "HASH1_SAVE_P1">>>>>>,
       <<"=", "MSGTMP0_P2", <<"vsha256su0q_u32", <<"reg", "HASH0_SAVE_P2">>, <<"reg", "HASH1_SAVE_P2">>>>>>,
       <<"=", "MSGTMP0_P3", <<"vsha256su0q_u32", <<"reg", "HASH0_SAVE_P3">>, <<"reg", "HASH1_SAVE_P3">>>>>>,
       <<"=", "MSGTMP0_P4", <<"vsha256su0q_u32", <<"reg", "HASH0_SAVE_P4">>, <<"reg", "HASH1_SAVE_P4">>>>>> >>,
    \* rounds 4-7
    << <<"=", "MSGV_P1", <<"vaddq_u32", <<"reg", "HASH1_SAVE_P1">>, <<"vld1q_u32", <<"adr", "K64", 4>>>>>>>>,
       <<"=", "MSGV_P2", <<"vaddq_u32", <<"reg", "HASH1_SAVE_P2">>, <<"vld1q_u32", <<"adr", "K64", 4>>>>>>>>,
       <<"=", "MSGV_P3", <<"vaddq_u32", <<"reg", "HASH1_SAVE_P3">>, <<"vld1q_u32", <<"adr", "K64", 4>>>>>>>>,
       <<"=", "MSGV_P4", <<"vaddq_u32", <<"reg", "HASH1_SAVE_P4">>, <<"vld1q_u32", <<"adr", "K64", 4>>>>>>>>,
       <<"=", "STATEV_P1", <<"reg", "STATE0_P1">>>>,
       <<"=", "STATEV_P2", <<"reg", "STATE0_P2">>>>,
       <<"=", "STATEV_P3", <<"reg", "STATE0_P3">>>>,
       <<"=", "STATEV_P4", <<"reg", "STATE0_P4">>>>,
       <<"=", "STATE0_P1", <<"vsha256hq_u32", <<"reg", "STATE0_P1">>, <<"reg", "STATE1_P1">>, <<"reg", "MSGV_P1">>>>>>,
       <<"=", "STATE0_P2", <<"vsha256hq_u32", <<"reg", "STATE0_P2">>, <<"reg", "STATE1_P2">>, <<"reg", "MSGV_P2">>>>>>,
       <<"=", "STATE0_P3", <<"vsha256hq_u32", <<"reg", "STATE0_P3">>, <<"reg", "STATE1_P3">>, <<"reg", "MSGV_P3">>>>>>,
       <<"=", "STATE0_P4", <<"vsha256hq_u32", <<"reg", "STATE0_P4">>, <<"reg", "STATE1_P4">>, <<"reg", "MSGV_P4">>>>>>,
       <<"=", "STATE1_P1", <<"vsha256h2q_u32", <<"reg", "STATE1_P1">>, <<"reg", "STATEV_P1">>, <<"reg", "MSGV_P1">>>>>>,
       <<"=", "STATE1_P2", <<"vsha256h2q_u32", <<"reg", "STATE1_P2">>, <<"reg", "STATEV_P2">>, <<"reg", "MSGV_P2">>>>>>,
       <<"=", "STATE1_P3", <<"vsha256h2q_u32", <<"reg", "STATE1_P3">>, <<"reg", "STATEV_P3">>, <<"reg", "MSGV_P3">>>>>>,
       <<"=", "STATE1_P4", <<"vsha256h2q_u32", <<"reg", "STATE1_P4">>, <<"reg", "STATEV_P4">>, <<"reg", "MSGV_P4">>>>>>,
       <<"=", "MSGTMP0_P1", <<"vsha256su1q_u32", <<"reg", "MSGTMP0_P1">>, <<"reg", "HPAD0_CACHE">>, <<"reg", "HPAD1_CACHE">>>>>>,
       <<"=", "MSGTMP0_P2", <<"vsha256su1q_u32", <<"reg", "MSGTMP0_P2">>, <<"reg", "HPAD0_CACHE">>, <<"reg", "HPAD1_CACHE">>>>>>,
       <<"=", "MSGTMP0_P3", <<"vsha256su1q_u32", <<"reg", "MSGTMP0_P3">>, <<"reg", "HPAD0_CACHE">>, <<"reg", "HPAD1_CACHE">>>>>>,
       <<"=", "MSGTMP0_P4", <<"vsha256su1q_u32", <<"reg", "MSGTMP0_P4">>, <<"reg", "HPAD0_CACHE">>, <<"reg", "HPAD1_CACHE">>>>>>,
       <<"=", "MSGTMP1_P1", <<"vsha256su0q_u32", <<"reg", "HASH1_SAVE_P1">>, <<"reg", "HPAD0_CACHE">>>>>>,
       <<"=", "MSGTMP1_P2", <<"vsha256su0q_u32", <<"reg", "HASH1_SAVE_P2">>, <<"reg", "HPAD0_CACHE">>>>>>,
       <<"=", "MSGTMP1_P3", <<"vsha256su0q_u32", <<"reg", "HASH1_SAVE_P3">>, <<"reg", "HPAD0_CACHE">>>>>>,
       <<"=", "MSGTMP1_P4", <<"vsha256su0q_u32", <<"reg", "HASH1_SAVE_P4">>, <<"reg", "HPAD0_CACHE">>>>>> >>,
    \* rounds 8-11
    << <<"=", "MSGV_P1", <<"vaddq_u32", <<"reg", "HPAD0_CACHE">>, <<"vld1q_u32", <<"adr", "K64", 8>>>>>>>>,
       <<"=", "MSGV_P2", <<"vaddq_u32", <<"reg", "HPAD0_CACHE">>, <<"vld1q_u32", <<"adr", "K64", 8>>>>>>>>,
       <<"=", "MSGV_P3", <<"vaddq_u32", <<"reg", "HPAD0_CACHE">>, <<"vld1q_u32", <<"adr", "K64", 8>>>>>>>>,
       <<"=", "MSGV_P4", <<"vaddq_u32", <<"reg", "HPAD0_CACHE">>, <<"vld1q_u32", <<"adr", "K64", 8>>>>>>>>,
       <<"=", "STATEV_P1", <<"reg", "STATE0_P1">>>>,
       <<"=", "STATEV_P2", <<"reg", "STATE0_P2">>>>,
       <<"=", "STATEV_P3", <<"reg", "STATE0_P3">>>>,
       <<"=", "STATEV_P4", <<"reg", "STATE0_P4">>>>,
       <<"=", "STATE0_P1", <<"vsha256hq_u32", <<"reg", "STATE0_P1">>, <<"reg", "STATE1_P1">>, <<"reg", "MSGV_P1">>>>>>,
       <<"=", "STATE0_P2", <<"vsha256hq_u32", <<"reg", "STATE0_P2">>, <<"reg", "STATE1_P2">>, <<"reg", "MSGV_P2">>>>>>,
       <<"=", "STATE0_P3", <<"vsha256hq_u32", <<"reg", "STATE0_P3">>, <<"reg", "STATE1_P3">>, <<"reg", "MSGV_P3">>>>>>,
       <<"=", "STATE0_P4", <<"vsha256hq_u32", <<"reg", "STATE0_P4">>, <<"reg", "STATE1_P4">>, <<"reg", "MSGV_P4">>>>>>,
       <<"=", "STATE1_P1", <<"vsha256h2q_u32", <<"reg", "STATE1_P1">>, <<"reg", "STATEV_P1">>, <<"reg", "MSGV_P1">>>>>>,
       <<"=", "STATE1_P2", <<"vsha256h2q_u32", <<"reg", "STATE1_P2">>, <<"reg", "STATEV_P2">>, <<"reg", "MSGV_P2">>>>>>,
       <<"=", "STATE1_P3", <<"vsha256h2q_u32", <<"reg", "STATE1_P3">>, <<"reg", "STATEV_P3">>, <<"reg", "MSGV_P3">>>>>>,
       <<"=", "STATE1_P4", <<"vsha256h2q_u32", <<"reg", "STATE1_P4">>, <<"reg", "STATEV_P4">>, <<"reg", "MSGV_P4">>>>>>,
       <<"=", "MSGTMP1_P1", <<"vsha256su1q_u32", <<"reg", "MSGTMP1_P1">>, <<"reg", "HPAD1_CACHE">>, <<"reg", "MSGTMP0_P1">>>>>>,
       <<"=", "MSGTMP1_P2", <<"vsha256su1q_u32", <<"reg", "MSGTMP1_P2">>, <<"reg", "HPAD1_CACHE">>, <<"reg", "MSGTMP0_P2">>>>>>,
       <<"=", "MSGTMP1_P3", <<"vsha256su1q_u32", <<"reg", "MSGTMP1_P3">>, <<"reg", "HPAD1_CACHE">>, <<"reg", "MSGTMP0_P3">>>>>>,
       <<"=", "MSGTMP1_P4", <<"vsha256su1q_u32", <<"reg", "MSGTMP1_P4">>, <<"reg", "HPAD1_CACHE">>, <<"reg", "MSGTMP0_P4">>>>>>,
       <<"=", "MSGTMP2_P1", <<"reg", "HPAD0_CACHE">>>>,
       <<"=", "MSGTMP2_P2", <<"reg", "HPAD0_CACHE">>>>,
       <<"=", "MSGTMP2_P3", <<"reg", "HPAD0_CACHE">>>>,
       <<"=", "MSGTMP2_P4", <<"reg", "HPAD0_CACHE">>>> >>,
    \* rounds 12-15
    << <<"=", "MSGV_P1", <<"vaddq_u32", <<"reg", "HPAD1_CACHE">>, <<"vld1q_u32", <<"adr", "K64", 12>>>>>>>>,
       <<"=", "MSGV_P2", <<"vaddq_u32", <<"reg", "HPAD1_CACHE">>, <<"vld1q_u32", <<"adr", "K64", 12>>>>>>>>,
       <<"=", "MSGV_P3", <<"vaddq_u32", <<"reg", "HPAD1_CACHE">>, <<"vld1q_u32", <<"adr", "K64", 12>>>>>>>>,
       <<"=", "MSGV_P4", <<"vaddq_u32", <<"reg", "HPAD1_CACHE">>, <<"vld1q_u32", <<"adr", "K64", 12>>>>>>>>,
       <<"=", "STATEV_P1", <<"reg", "STATE0_P1">>>>,
       <<"=", "STATEV_P2", <<"reg", "STATE0_P2">>>>,
       <<"=", "STATEV_P3", <<"reg", "STATE0_P3">>>>,
       <<"=", "STATEV_P4", <<"reg", "STATE0_P4">>>>,
       <<"=", "STATE0_P1", <<"vsha256hq_u32", <<"reg", "STATE0_P1">>, <<"reg", "STATE1_P1">>, <<"reg", "MSGV_P1">>>>>>,
       <<"=", "STATE0_P2", <<"vsha256hq_u32", <<"reg", "STATE0_P2">>, <<"reg", "STATE1_P2">>, <<"reg", "MSGV_P2">>>>>>,
       <<"=", "STATE0_P3", <<"vsha256hq_u32", <<"reg", "STATE0_P3">>, <<"reg", "STATE1_P3">>, <<"reg", "MSGV_P3">>>>>>,
       <<"=", "STATE0_P4", <<"vsha256hq_u32", <<"reg", "STATE0_P4">>, <<"reg", "STATE1_P4">>, <<"reg", "MSGV_P4">>>>>>,
       <<"=", "STATE1_P1", <<"vsha256h2q_u32", <<"reg", "STATE1_P1">>, <<"reg", "STATEV_P1">>, <<"reg", "MSGV_P1">>>>>>,
       <<"=", "STATE1_P2", <<"vsha256h2q_u32", <<"reg", "STATE1_P2">>, <<"reg", "STATEV_P2">>, <<"reg", "MSGV_P2">>>>>>,
       <<"=", "STATE1_P3", <<"vsha256h2q_u32", <<"reg", "STATE1_P3">>, <<"reg", "STATEV_P3">>, <<"reg", "MSGV_P3">>>>>>,
       <<"=", "STATE1_P4", <<"vsha256h2q_u32", <<"reg", "STATE1_P4">>, <<"reg", "STATEV_P4">>, <<"reg", "MSGV_P4">>>>>>,
       <<"=", "MSGTMP2_P1", <<"vsha256su1q_u32", <<"reg", "MSGTMP2_P1">>, <<"reg", "MSGTMP0_P1">>, <<"reg", "MSGTMP1_P1">>>>>>,
       <<"=", "MSGTMP2_P2", <<"vsha256su1q_u32", <<"reg", "MSGTMP2_P2">>, <<"reg", "MSGTMP0_P2">>, <<"reg", "MSGTMP1_P2">>>>>>,
       <<"=", "MSGTMP2_P3", <<"vsha256su1q_u32", <<"reg", "MSGTMP2_P3">>, <<"reg", "MSGTMP0_P3">>, <<"reg", "MSGTMP1_P3">>>>>>,
       <<"=", "MSGTMP2_P4", <<"vsha256su1q_u32", <<"reg", "MSGTMP2_P4">>, <<"reg", "MSGTMP0_P4">>, <<"reg", "MSGTMP1_P4">>>>>>,
       <<"=", "MSGTMP3_P1", <<"vsha256su0q_u32", <<"reg", "HPAD1_CACHE">>, <<"reg", "MSGTMP0_P1">>>>>>,
       <<"=", "MSGTMP3_P2", <<"vsha256su0q_u32", <<"reg", "HPAD1_CACHE">>, <<"reg", "MSGTMP0_P2">>>>>>,
       <<"=", "MSGTMP3_P3", <<"vsha256su0q_u32", <<"reg", "HPAD1_CACHE">>, <<"reg", "MSGTMP0_P3">>>>>>,
       <<"=", "MSGTMP3_P4", <<"vsha256su0q_u32", <<"reg", "HPAD1_CACHE">>, <<"reg", "MSGTMP0_P4">>>>>> >>,
    \* rounds 16-19, 20-23, 24-27, 28-31
    ARM_SHA256ROUND_X4("MSGV_P1", "MSGTMP0_P1", "MSGTMP1_P1", "MSGTMP2_P1", "MSGTMP3_P1", "STATEV_P1", "STATE0_P1",
                       "STATE1_P1", "MSGV_P2", "MSGTMP0_P2", "MSGTMP1_P2", "MSGTMP2_P2", "MSGTMP3_P2", "STATEV_P2",
                       "STATE0_P2", "STATE1_P2", "MSGV_P3", "MSGTMP0_P3", "MSGTMP1_P3", "MSGTMP2_P3", "MSGTMP3_P3",
                       "STATEV_P3", "STATE0_P3", "STATE1_P3", "MSGV_P4", "MSGTMP0_P4", "MSGTMP1_P4", "MSGTMP2_P4",
                       "MSGTMP3_P4", "STATEV_P4", "STATE0_P4", "STATE1_P4", <<"adr", "K64", 16>>),
    ARM_SHA256ROUND_X4("MSGV_P1", "MSGTMP1_P1", "MSGTMP2_P1", "MSGTMP3_P1", "MSGTMP0_P1", "STATEV_P1", "STATE0_P1",
                       "STATE1_P1", "MSGV_P2", "MSGTMP1_P2", "MSGTMP2_P2", "MSGTMP3_P2", "MSGTMP0_P2", "STATEV_P2",
                       "STATE0_P2", "STATE1_P2", "MSGV_P3", "MSGTMP1_P3", "MSGTMP2_P3", "MSGTMP3_P3", "MSGTMP0_P3",
                       "STATEV_P3", "STATE0_P3", "STATE1_P3", "MSGV_P4", "MSGTMP1_P4", "MSGTMP2_P4", "MSGTMP3_P4",
                       "MSGTMP0_P4", "STATEV_P4", "STATE0_P4", "STATE1_P4", <<"adr", "K64", 20>>),
    ARM_SHA256ROUND_X4("MSGV_P1", "MSGTMP2_P1", "MSGTMP3_P1", "MSGTMP0_P1", "MSGTMP1_P1", "STATEV_P1", "STATE0_P1",
                       "STATE1_P1", "MSGV_P2", "MSGTMP2_P2", "MSGTMP3_P2", "MSGTMP0_P2", "MSGTMP1_P2", "STATEV_P2",
                       "STATE0_P2", "STATE1_P2", "MSGV_P3", "MSGTMP2_P3", "MSGTMP3_P3", "MSGTMP0_P3", "MSGTMP1_P3",
                       "STATEV_P3", "STATE0_P3", "STATE1_P3", "MSGV_P4", "MSGTMP2_P4", "MSGTMP3_P4", "MSGTMP0_P4",
                       "MSGTMP1_P4", "STATEV_P4", "STATE0_P4", "STATE1_P4", <<"adr", "K64", 24>>),
    ARM_SHA256ROUND_X4("MSGV_P1", "MSGTMP3_P1", "MSGTMP0_P1", "MSGTMP1_P1", "MSGTMP2_P1", "STATEV_P1", "STATE0_P1",
                       "STATE1_P1", "MSGV_P2", "MSGTMP3_P2", "MSGTMP0_P2", "MSGTMP1_P2", "MSGTMP2_P2", "STATEV_P2",
                       "STATE0_P2", "STATE1_P2", "MSGV_P3", "MSGTMP3_P3", "MSGTMP0_P3", "MSGTMP1_P3", "MSGTMP2_P3",
                       "STATEV_P3", "STATE0_P3", "STATE1_P3", "MSGV_P4", "MSGTMP3_P4", "MSGTMP0_P4", "MSGTMP1_P4",
                       "MSGTMP2_P4", "STATEV_P4", "STATE0_P4", "STATE1_P4", <<"adr", "K64", 28>>),
    \* rounds 32-35, 36-39, 40-43, 44-47
    ARM_SHA256ROUND_X4("MSGV_P1", "MSGTMP0_P1", "MSGTMP1_P1", "MSGTMP2_P1", "MSGTMP3_P1", "STATEV_P1", "STATE0_P1",
                       "STATE1_P1", "MSGV_P2", "MSGTMP0_P2", "MSGTMP1_P2", "MSGTMP2_P2", "MSGTMP3_P2", "STATEV_P2",
                       "STATE0_P2", "STATE1_P2", "MSGV_P3", "MSGTMP0_P3", "MSGTMP1_P3", "MSGTMP2_P3", "MSGTMP3_P3",
                       "STATEV_P3", "STATE0_P3", "STATE1_P3", "MSGV_P4", "MSGTMP0_P4", "MSGTMP1_P4", "MSGTMP2_P4",
                       "MSGTMP3_P4", "STATEV_P4", "STATE0_P4", "STATE1_P4", <<"adr", "K64", 32>>),
    ARM_SHA256ROUND_X4("MSGV_P1", "MSGTMP1_P1", "MSGTMP2_P1", "MSGTMP3_P1", "MSGTMP0_P1", "STATEV_P1", "STATE0_P1",
                       "STATE1_P1", "MSGV_P2", "MSGTMP1_P2", "MSGTMP2_P2", "MSGTMP3_P2", "MSGTMP0_P2", "STATEV_P2",
                       "STATE0_P2", "STATE1_P2", "MSGV_P3", "MSGTMP1_P3", "MSGTMP2_P3", "MSGTMP3_P3", "MSGTMP0_P3",
                       "STATEV_P3", "STATE0_P3", "STATE1_P3", "MSGV_P4", "MSGTMP1_P4", "MSGTMP2_P4", "MSGTMP3_P4",
                       "MSGTMP0_P4", "STATEV_P4", "STATE0_P4", "STATE1_P4", <<"adr", "K64", 36>>),
    ARM_SHA256ROUND_X4("MSGV_P1", "MSGTMP2_P1", "MSGTMP3_P1", "MSGTMP0_P1", "MSGTMP1_P1", "STATEV_P1", "STATE0_P1",
                       "STATE1_P1", "MSGV_P2", "MSGTMP2_P2", "MSGTMP3_P2", "MSGTMP0_P2", "MSGTMP1_P2", "STATEV_P2",
                       "STATE0_P2", "STATE1_P2", "MSGV_P3", "MSGTMP2_P3", "MSGTMP3_P3", "MSGTMP0_P3", "MSGTMP1_P3",
                       "STATEV_P3", "STATE0_P3", "STATE1_P3", "MSGV_P4", "MSGTMP2_P4", "MSGTMP3_P4", "MSGTMP0_P4",
                       "MSGTMP1_P4", "STATEV_P4", "STATE0_P4", "STATE1_P4", <<"adr", "K64", 40>>),
    ARM_SHA256ROUND_X4("MSGV_P1", "MSGTMP3_P1", "MSGTMP0_P1", "MSGTMP1_P1", "MSGTMP2_P1", "STATEV_P1", "STATE0_P1",
                       "STATE1_P1", "MSGV_P2", "MSGTMP3_P2", "MSGTMP0_P2", "MSGTMP1_P2", "MSGTMP2_P2", "STATEV_P2",
                       "STATE0_P2", "STATE1_P2", "MSGV_P3", "MSGTMP3_P3", "MSGTMP0_P3", "MSGTMP1_P3", "MSGTMP2_P3",
                       "STATEV_P3", "STATE0_P3", "STATE1_P3", "MSGV_P4", "MSGTMP3_P4", "MSGTMP0_P4", "MSGTMP1_P4",
                       "MSGTMP2_P4", "STATEV_P4", "STATE0_P4", "STATE1_P4", <<"adr", "K64", 44>>),
    \* rounds 48-51
    << <<"=", "MSGV_P1", <<"vaddq_u32", <<"reg", "MSGTMP0_P1">>, <<"vld1q_u32", <<"adr", "K64", 48>>>>>>>>,
       <<"=", "MSGV_P2", <<"vaddq_u32", <<"reg", "MSGTMP0_P2">>, <<"vld1q_u32", <<"adr", "K64", 48>>>>>>>>,
       <<"=", "MSGV_P3", <<"vaddq_u32", <<"reg", "MSGTMP0_P3">>, <<"vld1q_u32", <<"adr", "K64", 48>>>>>>>>,
       <<"=", "MSGV_P4", <<"vaddq_u32", <<"reg", "MSGTMP0_P4">>, <<"vld1q_u32", <<"adr", "K64", 48>>>>>>>>,
       <<"=", "STATEV_P1", <<"reg", "STATE0_P1">>>>,
       <<"=", "STATEV_P2", <<"reg", "STATE0_P2">>>>,
       <<"=", "STATEV_P3", <<"reg", "STATE0_P3">>>>,
       <<"=", "STATEV_P4", <<"reg", "STATE0_P4">>>>,
       <<"=", "STATE0_P1", <<"vsha256hq_u32", <<"reg", "STATE0_P1">>, <<"reg", "STATE1_P1">>, <<"reg", "MSGV_P1">>>>>>,
       <<"=", "STATE0_P2", <<"vsha256hq_u32", <<"reg", "STATE0_P2">>, <<"reg", "STATE1_P2">>, <<"reg", "MSGV_P2">>>>>>,
       <<"=", "STATE0_P3", <<"vsha256hq_u32", <<"reg", "STATE0_P3">>, <<"reg", "STATE1_P3">>, <<"reg", "MSGV_P3">>>>>>,
       <<"=", "STATE0_P4", <<"vsha256hq_u32", <<"reg", "STATE0_P4">>, <<"reg", "STATE1_P4">>, <<"reg", "MSGV_P4">>>>>>,
       <<"=", "STATE1_P1", <<"vsha256h2q_u32", <<"reg", "STATE1_P1">>, <<"reg", "STATEV_P1">>, <<"reg", "MSGV_P1">>>>>>,
       <<"=", "STATE1_P2", <<"vsha256h2q_u32", <<"reg", "STATE1_P2">>, <<"reg", "STATEV_P2">>, <<"reg", "MSGV_P2">>>>>>,
       <<"=", "STATE1_P3", <<"vsha256h2q_u32", <<"reg", "STATE1_P3">>, <<"reg", "STATEV_P3">>, <<"reg", "MSGV_P3">>>>>>,
       <<"=", "STATE1_P4", <<"vsha256h2q_u32", <<"reg", "STATE1_P4">>, <<"reg", "STATEV_P4">>, <<"reg", "MSGV_P4">>>>>>,
       <<"=", "MSGTMP3_P1", <<"vsha256su1q_u32", <<"reg", "MSGTMP3_P1">>, <<"reg", "MSGTMP1_P1">>, <<"reg", "MSGTMP2_P1">>>>>>,
       <<"=", "MSGTMP3_P2", <<"vsha256su1q_u32", <<"reg", "MSGTMP3_P2">>, <<"reg", "MSGTMP1_P2">>, <<"reg", "MSGTMP2_P2">>>>>>,
       <<"=", "MSGTMP3_P3", <<"vsha256su1q_u32", <<"reg", "MSGTMP3_P3">>, <<"reg", "MSGTMP1_P3">>, <<"reg", "MSGTMP2_P3">>>>>>,
       <<"=", "MSGTMP3_P4", <<"vsha256su1q_u32", <<"reg", "MSGTMP3_P4">>, <<"reg", "MSGTMP1_P4">>, <<"reg", "MSGTMP2_P4">>>>>> >>,
    \* rounds 52-55
    << <<"=", "MSGV_P1", <<"vaddq_u32", <<"reg", "MSGTMP1_P1">>, <<"vld1q_u32", <<"adr", "K64", 52>>>>>>>>,
       <<"=", "MSGV_P2", <<"vaddq_u32", <<"reg", "MSGTMP1_P2">>, <<"vld1q_u32", <<"adr", "K64", 52>>>>>>>>,
       <<"=", "MSGV_P3", <<"vaddq_u32", <<"reg", "MSGTMP1_P3">>, <<"vld1q_u32", <<"adr", "K64", 52>>>>>>>>,
       <<"=", "MSGV_P4", <<"vaddq_u32", <<"reg", "MSGTMP1_P4">>, <<"vld1q_u32", <<"adr", "K64", 52>>>>>>>>,
       <<"=", "STATEV_P1", <<"reg", "STATE0_P1">>>>,
       <<"=", "STATEV_P2", <<"reg", "STATE0_P2">>>>,
       <<"=", "STATEV_P3", <<"reg", "STATE0_P3">>>>,
       <<"=", "STATEV_P4", <<"reg", "STATE0_P4">>>>,
       <<"=", "STATE0_P1", <<"vsha256hq_u32", <<"reg", "STATE0_P1">>, <<"reg", "STATE1_P1">>, <<"reg", "MSGV_P1">>>>>>,
       <<"=", "STATE0_P2", <<"vsha256hq_u32", <<"reg", "STATE0_P2">>, <<"reg", "STATE1_P2">>, <<"reg", "MSGV_P2">>>>>>,
       <<"=", "STATE0_P3", <<"vsha256hq_u32", <<"reg", "STATE0_P3">>, <<"reg", "STATE1_P3">>, <<"reg", "MSGV_P3">>>>>>,
       <<"=", "STATE0_P4", <<"vsha256hq_u32", <<"reg", "STATE0_P4">>, <<"reg", "STATE1_P4">>, <<"reg", "MSGV_P4">>>>>>,
       <<"=", "STATE1_P1", <<"vsha256h2q_u32", <<"reg", "STATE1_P1">>, <<"reg", "STATEV_P1">>, <<"reg", "MSGV_P1">>>>>>,
       <<"=", "STATE1_P2", <<"vsha256h2q_u32", <<"reg", "STATE1_P2">>, <<"reg", "STATEV_P2">>, <<"reg", "MSGV_P2">>>>>>,
       <<"=", "STATE1_P3", <<"vsha256h2q_u32", <<"reg", "STATE1_P3">>, <<"reg", "STATEV_P3">>, <<"reg", "MSGV_P3">>>>>>,
       <<"=", "STATE1_P4", <<"vsha256h2q_u32", <<"reg", "STATE1_P4">>, <<"reg", "STATEV_P4">>, <<"reg", "MSGV_P4">>>>>> >>,
    \* rounds 56-59
    << <<"=", "MSGV_P1", <<"vaddq_u32", <<"reg", "MSGTMP2_P1">>, <<"vld1q_u32", <<"adr", "K64", 56>>>>>>>>,
       <<"=", "MSGV_P2", <<"vaddq_u32", <<"reg", "MSGTMP2_P2">>, <<"vld1q_u32", <<"adr", "K64", 56>>>>>>>>,
       <<"=", "MSGV_P3", <<"vaddq_u32", <<"reg", "MSGTMP2_P3">>, <<"vld1q_u32", <<"adr", "K64", 56>>>>>>>>,
       <<"=", "MSGV_P4", <<"vaddq_u32", <<"reg", "MSGTMP2_P4">>, <<"vld1q_u32", <<"adr", "K64", 56>>>>>>>>,
       <<"=", "STATEV_P1", <<"reg", "STATE0_P1">>>>,
       <<"=", "STATEV_P2", <<"reg", "STATE0_P2">>>>,
       <<"=", "STATEV_P3", <<"reg", "STATE0_P3">>>>,
       <<"=", "STATEV_P4", <<"reg", "STATE0_P4">>>>,
       <<"=", "STATE0_P1", <<"vsha256hq_u32", <<"reg", "STATE0_P1">>, <<"reg", "STATE1_P1">>, <<"reg", "MSGV_P1">>>>>>,
       <<"=", "STATE0_P2", <<"vsha256hq_u32", <<"reg", "STATE0_P2">>, <<"reg", "STATE1_P2">>, <<"reg", "MSGV_P2">>>>>>,
       <<"=", "STATE0_P3", <<"vsha256hq_u32", <<"reg", "STATE0_P3">>, <<"reg", "STATE1_P3">>, <<"reg", "MSGV_P3">>>>>>,
       <<"=", "STATE0_P4", <<"vsha256hq_u32", <<"reg", "STATE0_P4">>, <<"reg", "STATE1_P4">>, <<"reg", "MSGV_P4">>>>>>,
       <<"=", "STATE1_P1", <<"vsha256h2q_u32", <<"reg", "STATE1_P1">>, <<"reg", "STATEV_P1">>, <<"reg", "MSGV_P1">>>>>>,
       <<"=", "STATE1_P2", <<"vsha256h2q_u32", <<"reg", "STATE1_P2">>, <<"reg", "STATEV_P2">>, <<"reg", "MSGV_P2">>>>>>,
       <<"=", "STATE1_P3", <<"vsha256h2q_u32", <<"reg", "STATE1_P3">>, <<"reg", "STATEV_P3">>, <<"reg", "MSGV_P3">>>>>>,
       <<"=", "STATE1_P4", <<"vsha256h2q_u32", <<"reg", "STATE1_P4">>, <<"reg", "STATEV_P4">>, <<"reg", "MSGV_P4">>>>>> >>,
    \* rounds 60-63
    << <<"=", "MSGV_P1", <<"vaddq_u32", <<"reg", "MSGTMP3_P1">>, <<"vld1q_u32", <<"adr", "K64", 60>>>>>>>>,
       <<"=", "MSGV_P2", <<"vaddq_u32", <<"reg", "MSGTMP3_P2">>, <<"vld1q_u32", <<"adr", "K64", 60>>>>>>>>,
       <<"=", "MSGV_P3", <<"vaddq_u32", <<"reg", "MSGTMP3_P3">>, <<"vld1q_u32", <<"adr", "K64", 60>>>>>>>>,
       <<"=", "MSGV_P4", <<"vaddq_u32", <<"reg", "MSGTMP3_P4">>, <<"vld1q_u32", <<"adr", "K64", 60>>>>>>>>,
       <<"=", "STATEV_P1", <<"reg", "STATE0_P1">>>>,
       <<"=", "STATEV_P2", <<"reg", "STATE0_P2">>>>,
       <<"=", "STATEV_P3", <<"reg", "STATE0_P3">>>>,
       <<"=", "STATEV_P4", <<"reg", "STATE0_P4">>>>,
       <<"=", "STATE0_P1", <<"vsha256hq_u32", <<"reg", "STATE0_P1">>, <<"reg", "STATE1_P1">>, <<"reg", "MSGV_P1">>>>>>,
       <<"=", "STATE0_P2", <<"vsha256hq_u32", <<"reg", "STATE0_P2">>, <<"reg", "STATE1_P2">>, <<"reg", "MSGV_P2">>>>>>,
       <<"=", "STATE0_P3", <<"vsha256hq_u32", <<"reg", "STATE0_P3">>, <<"reg", "STATE1_P3">>, <<"reg", "MSGV_P3">>>>>>,
       <<"=", "STATE0_P4", <<"vsha256hq_u32", <<"reg", "STATE0_P4">>, <<"reg", "STATE1_P4">>, <<"reg", "MSGV_P4">>>>>>,
       <<"=", "STATE1_P1", <<"vsha256h2q_u32", <<"reg", "STATE1_P1">>, <<"reg", "STATEV_P1">>, <<"reg", "MSGV_P1">>>>>>,
       <<"=", "STATE1_P2", <<"vsha256h2q_u32", <<"reg", "STATE1_P2">>, <<"reg", "STATEV_P2">>, <<"reg", "MSGV_P2">>>>>>,
       <<"=", "STATE1_P3", <<"vsha256h2q_u32", <<"reg", "STATE1_P3">>, <<"reg", "STATEV_P3">>, <<"reg", "MSGV_P3">>>>>>,
       <<"=", "STATE1_P4", <<"vsha256h2q_u32", <<"reg", "STATE1_P4">>, <<"reg", "STATEV_P4">>, <<"reg", "MSGV_P4">>>>>> >>,
    \* add init state to current state
    << <<"=", "HASH0_SAVE_P1", <<"vaddq_u32", <<"reg", "STATE0_P1">>, <<"reg", "ABCD_INIT">>>>>>,
       <<"=", "HASH0_SAVE_P2", <<"vaddq_u32", <<"reg", "STATE0_P2">>, <<"reg", "ABCD_INIT">>>>>>,
       <<"=", "HASH0_SAVE_P3", <<"vaddq_u32", <<"reg", "STATE0_P3">>, <<"reg", "ABCD_INIT">>>>>>,
       <<"=", "HASH0_SAVE_P4", <<"vaddq_u32", <<"reg", "STATE0_P4">>, <<"reg", "ABCD_INIT">>>>>>,
       <<"=", "HASH1_SAVE_P1", <<"vaddq_u32", <<"reg", "STATE1_P1">>, <<"reg", "EFGH_INIT">>>>>>,
       <<"=", "HASH1_SAVE_P2", <<"vaddq_u32", <<"reg", "STATE1_P2">>, <<"reg", "EFGH_INIT">>>>>>,
       <<"=", "HASH1_SAVE_P3", <<"vaddq_u32", <<"reg", "STATE1_P3">>, <<"reg", "EFGH_INIT">>>>>>,
       <<"=", "HASH1_SAVE_P4", <<"vaddq_u32", <<"reg", "STATE1_P4">>, <<"reg", "EFGH_INIT">>>>>> >>
  >>

\* the statements after the loop, block by block
rsha256_fast_x4_exit ==
  <<
    \* shuffle Cryptography Extensions hash value back
    << <<"=", "HASH0_SAVE_P1", <<"vreinterpretq_u32_u8", <<"vrev32q_u8", <<"vreinterpretq_u8_u32", <<"reg", "HASH0_SAVE_P1">>>>>>>>>>,
       <<"=", "HASH1_SAVE_P1", <<"vreinterpretq_u32_u8", <<"vrev32q_u8", <<"vreinterpretq_u8_u32", <<"reg", "HASH1_SAVE_P1">>>>>>>>>>,
       <<"=", "HASH0_SAVE_P2", <<"vreinterpretq_u32_u8", <<"vrev32q_u8", <<"vreinterpretq_u8_u32", <<"reg", "HASH0_SAVE_P2">>>>>>>>>>,
       <<"=", "HASH1_SAVE_P2", <<"vreinterpretq_u32_u8", <<"vrev32q_u8", <<"vreinterpretq_u8_u32", <<"reg", "HASH1_SAVE_P2">>>>>>>>>>,
       <<"=", "HASH0_SAVE_P3", <<"vreinterpretq_u32_u8", <<"vrev32q_u8", <<"vreinterpretq_u8_u32", <<"reg", "HASH0_SAVE_P3">>>>>>>>>>,
       <<"=", "HASH1_SAVE_P3", <<"vreinterpretq_u32_u8", <<"vrev32q_u8", <<"vreinterpretq_u8_u32", <<"reg", "HASH1_SAVE_P3">>>>>>>>>>,
       <<"=", "HASH0_SAVE_P4", <<"vreinterpretq_u32_u8", <<"vrev32q_u8", <<"vreinterpretq_u8_u32", <<"reg", "HASH0_SAVE_P4">>>>>>>>>>,
       <<"=", "HASH1_SAVE_P4", <<"vreinterpretq_u32_u8", <<"vrev32q_u8", <<"vreinterpretq_u8_u32", <<"reg", "HASH1_SAVE_P4">>>>>>>>>> >>,
    \* copy/return final hash value into *hash
    << <<"store", <<"adr", "hash", 0>>, <<"reg", "HASH0_SAVE_P1">>>>,
       <<"store", <<"adr", "hash", 16>>, <<"reg", "HASH1_SAVE_P1">>>>,
       <<"store", <<"adr", "hash", 32>>, <<"reg", "HASH0_SAVE_P2">>>>,
       <<"store", <<"adr", "hash", 48>>, <<"reg", "HASH1_SAVE_P2">>>>,
       <<"store", <<"adr", "hash", 64>>, <<"reg", "HASH0_SAVE_P3">>>>,
       <<"store", <<"adr", "hash", 80>>, <<"reg", "HASH1_SAVE_P3">>>>,
       <<"store", <<"adr", "hash", 96>>, <<"reg", "HASH0_SAVE_P4">>>>,
       <<"store", <<"adr", "hash", 112>>, <<"reg", "HASH1_SAVE_P4">>>> >>
  >>

-----------------------------------------------------------------------------
(* The reference drivers: rec_sha256_reference (rsha256_ref_x64.cxx) and   *)
(* rsha256_ref (rsha256_ref_arm.cxx).  One pass of their loop builds       *)
(* state[8] and last[64], calls compress_digest and copies state to hash.  *)

\* RefLast without the 0x80 byte that ends the message
RefLast_NoEndBit(mem, hash) ==
  MemWrite(SubSeq(mem, hash + 1, hash + 32) \o [b \in 1..32 |-> 0],
           56, <<0, 0, 0, 0, 0, 0, 1, 0>>)

\* RefLast with the length written low byte first
RefLast_LengthLittleEnd(mem, hash) ==
  MemWrite(MemWrite(SubSeq(mem, hash + 1, hash + 32) \o [b \in 1..32 |-> 0], 32, <<128>>),
           56, <<0, 1, 0, 0, 0, 0, 0, 0>>)

\* memcpy(last,hash,32); memset(last+32,0,32); last[32] = 0x80; last[56..63] = 00 00 00 00 00 00 01 00
RefLast(mem, hash) ==
  MemWrite(MemWrite(SubSeq(mem, hash + 1, hash + 32) \o [b \in 1..32 |-> 0], 32, <<128>>),
           56, <<0, 0, 0, 0, 0, 0, 1, 0>>)

\* StateBytes without the bswap_32 of the eight words
StateBytes_NoSwap(state) ==
  WordBytes(state[1]) \o WordBytes(state[2]) \o WordBytes(state[3]) \o WordBytes(state[4]) \o
  WordBytes(state[5]) \o WordBytes(state[6]) \o WordBytes(state[7]) \o WordBytes(state[8])

\* for(k...) state[k] = bswap_32(state[k]); then the 32 bytes of state[] as memcpy sees them
StateBytes(state) ==
  WordBytes(bswap_32(state[1])) \o WordBytes(bswap_32(state[2])) \o
  WordBytes(bswap_32(state[3])) \o WordBytes(bswap_32(state[4])) \o
  WordBytes(bswap_32(state[5])) \o WordBytes(bswap_32(state[6])) \o
  WordBytes(bswap_32(state[7])) \o WordBytes(bswap_32(state[8]))

\* RefStore that leaves the caller's buffer alone
RefStore_NoCopy(out) == out

\* memcpy(hash,state,32) after the call of compress_digest
RefStore(out) == [out EXCEPT !.mem = MemWrite(@, out.hash, StateBytes(out.state))]

-----------------------------------------------------------------------------
(* The callers and the calls.  A caller owns one hashx4[32 * 4] buffer     *)
(* (local_Benchmark's hashx4, or loop_hashx4 of one thread of its parallel *)
(* loop) and passes it to an entry point.  A call is three kinds of steps: *)
(* Call (entry up to the loop), Iterate (one pass of the loop), Return     *)
(* (the statements after the loop).                                        *)

\* number of callers
NumThreads == 2
\* iterations one caller may ask for, over all its calls
MaxIters == 2
\* calls one caller may make
MaxCalls == 2

\* uint8_t hashx4[32 * 4]
BufLen == 128

Threads == 1..NumThreads

X64Fns ==
  {"rec_sha256_reference", "rec_sha256_fast",
   "rec_sha256_fast_x1", "rec_sha256_fast_x2", "rec_sha256_fast_x3", "rec_sha256_fast_x4"}
ArmFns ==
  {"rsha256_ref", "rsha256_fast",
   "rsha256_fast_x1", "rsha256_fast_x2", "rsha256_fast_x3", "rsha256_fast_x4"}
Fns == X64Fns \cup ArmFns

IsArm(f) == f \in ArmFns
IsRef(f) == f \in {"rec_sha256_reference", "rsha256_ref"}
IsPipelined(f) == ~IsRef(f) /\ f \notin {"rec_sha256_fast", "rsha256_fast"}

\* number of 32-byte values an entry point works on
Lanes(f) ==
  CASE f \in {"rec_sha256_fast_x2", "rsha256_fast_x2"} -> 2
    [] f \in {"rec_sha256_fast_x3", "rsha256_fast_x3"} -> 3
    [] f \in {"rec_sha256_fast_x4", "rsha256_fast_x4"} -> 4
    [] OTHER -> 1

\* where lane k of a call on hash starts: hash + 32*(k-1)
LaneOff(hash, k) == hash + 32 * (k - 1)

\* the statements before the loop, of the loop, after the loop
Entry(f) ==
  CASE f = "rec_sha256_fast"    -> rec_sha256_fast_entry
    [] f = "rec_sha256_fast_x1" -> rec_sha256_fast_x1_entry
    [] f = "rec_sha256_fast_x2" -> rec_sha256_fast_x2_entry
    [] f = "rec_sha256_fast_x3" -> rec_sha256_fast_x3_entry
    [] f = "rec_sha256_fast_x4" -> rec_sha256_fast_x4_entry
    [] f = "rsha256_fast"       -> rsha256_fast_entry
    [] f = "rsha256_fast_x1"    -> rsha256_fast_x1_entry
    [] f = "rsha256_fast_x2"    -> rsha256_fast_x2_entry
    [] f = "rsha256_fast_x3"    -> rsha256_fast_x3_entry
    [] f = "rsha256_fast_x4"    -> rsha256_fast_x4_entry
    [] OTHER                    -> <<>>

Loop(f) ==
  CASE f = "rec_sha256_fast"    -> rec_sha256_fast_loop
    [] f = "rec_sha256_fast_x1" -> rec_sha256_fast_x1_loop
    [] f = "rec_sha256_fast_x2" -> rec_sha256_fast_x2_loop
    [] f = "rec_sha256_fast_x3" -> rec_sha256_fast_x3_loop
    [] f = "rec_sha256_fast_x4" -> rec_sha256_fast_x4_loop
    [] f = "rsha256_fast"       -> rsha256_fast_loop
    [] f = "rsha256_fast_x1"    -> rsha256_fast_x1_loop
    [] f = "rsha256_fast_x2"    -> rsha256_fast_x2_loop
    [] f = "rsha256_fast_x3"    -> rsha256_fast_x3_loop
    [] f = "rsha256_fast_x4"    -> rsha256_fast_x4_loop
    [] f = "rsha256_ref"        -> compress_digest_arm
    [] OTHER                    -> compress_digest_x64

Exit(f) ==
  CASE f = "rec_sha256_fast"    -> rec_sha256_fast_exit
    [] f = "rec_sha256_fast_x1" -> rec_sha256_fast_x1_exit
    [] f = "rec_sha256_fast_x2" -> rec_sha256_fast_x2_exit
    [] f = "rec_sha256_fast_x3" -> rec_sha256_fast_x3_exit
    [] f = "rec_sha256_fast_x4" -> rec_sha256_fast_x4_exit
    [] f = "rsha256_fast"       -> rsha256_fast_exit
    [] f = "rsha256_fast_x1"    -> rsha256_fast_x1_exit
    [] f = "rsha256_fast_x2"    -> rsha256_fast_x2_exit
    [] f = "rsha256_fast_x3"    -> rsha256_fast_x3_exit
    [] f = "rsha256_fast_x4"    -> rsha256_fast_x4_exit
    [] OTHER                    -> <<>>

\* the vector locals of f (of compress_digest for a reference driver), all holding j
Locals(f, j) ==
  CASE f = "rec_sha256_fast"    -> rec_sha256_fast_locals(j)
    [] f = "rec_sha256_fast_x1" -> rec_sha256_fast_x1_locals(j)
    [] f = "rec_sha256_fast_x2" -> rec_sha256_fast_x2_locals(j)
    [] f = "rec_sha256_fast_x3" -> rec_sha256_fast_x3_locals(j)
    [] f = "rec_sha256_fast_x4" -> rec_sha256_fast_x4_locals(j)
    [] f = "rsha256_fast"       -> rsha256_fast_locals(j)
    [] f = "rsha256_fast_x1"    -> rsha256_fast_x1_locals(j)
    [] f = "rsha256_fast_x2"    -> rsha256_fast_x2_locals(j)
    [] f = "rsha256_fast_x3"    -> rsha256_fast_x3_locals(j)
    [] f = "rsha256_fast_x4"    -> rsha256_fast_x4_locals(j)
    [] f = "rsha256_ref"        -> compress_digest_arm_locals(j)
    [] OTHER                    -> compress_digest_x64_locals(j)

\* the two registers the round instructions of lane k write
RoundRegs(f, k) ==
  IF IsPipelined(f)
    THEN <<<<"STATE0_P1", "STATE1_P1">>, <<"STATE0_P2", "STATE1_P2">>,
           <<"STATE0_P3", "STATE1_P3">>, <<"STATE0_P4", "STATE1_P4">>>>[k]
    ELSE <<"STATE0", "STATE1">>

\* round instructions done for lane k, given the counts per register
Rounds(cnt, f, k) == cnt[RoundRegs(f, k)[1]] + cnt[RoundRegs(f, k)[2]]

\* round instructions of one pass of the 64 rounds
RoundsPerPass == 32

\* if(num_iters <= 0) return;
EarlyReturn(n) == n <= 0

\* the loop condition with <= for <
LoopCond_OneMore(iv, n) == iv <= n

\* for(uint64_t i = 0; i < num_iters; ++i)
LoopCond(iv, n) == iv < n

\* the buffer a caller passes, as an offset into mem
BufferOf(t) == (t - 1) * BufLen

\* the locals as static variables: one frame for all callers
FrameOf_Static(t) == 1

\* locals are automatic: every call in progress has its own
FrameOf(t) == t

\* what an uninitialised __m128i / uint32x4_t local may hold
JunkValues ==
  {<<U32(0, 0), U32(0, 0), U32(0, 0), U32(0, 0)>>,
   <<U32(65535, 65535), U32(65535, 65535), U32(65535, 65535), U32(65535, 65535)>>}

\* the environment of a fast entry point
FastEnv(r, cnt, mem, hash, ro) ==
  [r |-> r, cnt |-> cnt, mem |-> mem, hash |-> hash, state |-> <<>>, last |-> <<>>, ro |-> ro]

\* RefEnv with state[8] holding the words of the running value: the state is carried
RefEnv_Carried(f, cnt, mem, hash, ro, j) ==
  [r |-> Locals(f, j), cnt |-> cnt, mem |-> mem, hash |-> hash,
   state |-> [k \in 1..8 |-> BEWord(SubSeq(mem, hash + 1, hash + 32), k - 1)],
   last |-> RefLast(mem, hash), ro |-> ro]

\* the environment of compress_digest(state,last) inside one pass of a reference driver
RefEnv(f, cnt, mem, hash, ro, j) ==
  [r |-> Locals(f, j), cnt |-> cnt, mem |-> mem, hash |-> hash,
   state |-> InitState, last |-> RefLast(mem, hash), ro |-> ro]

\* one pass of the loop of f
Pass(f, env, j) ==
  IF IsRef(f)
    THEN RefStore(Exec(RefEnv(f, env.cnt, env.mem, env.hash, env.ro, j), Loop(f), 1))
    ELSE Exec(env, Loop(f), 1)

\* the passes iv.. of the loop
RECURSIVE Passes(_, _, _, _, _)
Passes(f, env, iv, n, j) ==
  IF env.hash >= 0 /\ LoopCond(iv, n) THEN Passes(f, Pass(f, env, j), iv + 1, n, j) ELSE env

\* a whole call f(hash, n) made alone with the tables as loaded: the environment it leaves
CallEnv(f, mem, hash, n, j) ==
  IF EarlyReturn(n)
    THEN FastEnv(Locals(f, j), Locals(f, 0), mem, hash, RoData)
    ELSE Exec(Passes(f, Exec(FastEnv(Locals(f, j), Locals(f, 0), mem, hash, RoData), Entry(f), 1),
                     0, n, j),
              Exit(f), 1)

\* the memory it leaves
CallResult(f, mem, hash, n, j) == CallEnv(f, mem, hash, n, j).mem

\* hashP1_0 .. hashP4_0 of local_InitHashVerify
hashP_0 ==
  <<
    46, 253, 100, 165, 84, 99, 181, 181, 84, 196, 162, 226, 42, 71, 45, 162,
    59, 183, 110, 99, 117, 140, 227, 200, 146, 118, 171, 240, 233, 173, 139, 21,
    115, 229, 193, 245, 54, 126, 31, 173, 125, 66, 170, 172, 170, 41, 95, 16,
    127, 185, 226, 198, 52, 23, 1, 18, 107, 29, 100, 187, 203, 23, 141, 163,
    5, 39, 81, 104, 98, 16, 161, 218, 206, 134, 45, 71, 65, 70, 160, 3,
    105, 110, 151, 33, 218, 168, 55, 217, 43, 32, 11, 193, 219, 159, 20, 239,
    202, 106, 7, 121, 205, 169, 225, 14, 57, 144, 90, 120, 93, 66, 141, 110,
    62, 206, 38, 39, 83, 166, 64, 42, 185, 54, 59, 132, 207, 115, 111, 96 >>

\* a buffer of 0xFF bytes
AllOnes == [b \in 1..BufLen |-> 255]

Inputs == {hashP_0, AllOnes}

-----------------------------------------------------------------------------
(* The benchmark harness (pipeline_mt/benchmark_mt.cxx).  A C string is    *)
(* kept as the sequence of its characters, each a one-character string.    *)

\* the decimal digits, '0' first
DigitChars == <<"0", "1", "2", "3", "4", "5", "6", "7", "8", "9">>

isdigit(c) == \E d \in 1..10 : DigitChars[d] = c

\* the value of a digit character
DigitVal(c) == (CHOOSE d \in 1..10 : DigitChars[d] = c) - 1

UpperChars ==
  <<"A", "B", "C", "D", "E", "F", "G", "H", "I", "J", "K", "L", "M",
    "N", "O", "P", "Q", "R", "S", "T", "U", "V", "W", "X", "Y", "Z">>
LowerChars ==
  <<"a", "b", "c", "d", "e", "f", "g", "h", "i", "j", "k", "l", "m",
    "n", "o", "p", "q", "r", "s", "t", "u", "v", "w", "x", "y", "z">>

tolower(c) ==
  IF \E k \in 1..26 : UpperChars[k] = c
    THEN LowerChars[CHOOSE k \in 1..26 : UpperChars[k] = c]
    ELSE c

\* 0 when the strings are equal, nonzero otherwise; the harness tests only for 0
strcmp(a, b) == IF a = b THEN 0 ELSE 1

\* strcmp with the case of letters ignored
strcasecmp(a, b) ==
  IF Len(a) = Len(b) /\ \A k \in 1..Len(a) : tolower(a[k]) = tolower(b[k]) THEN 0 ELSE 1

\* the decimal digits of s from position k on, added to acc
RECURSIVE DigitRun(_, _, _)
DigitRun(s, k, acc) ==
  IF k <= Len(s) /\ isdigit(s[k]) THEN DigitRun(s, k + 1, 10 * acc + DigitVal(s[k])) ELSE acc

\* the position after the digits that start at k
RECURSIVE DigitEnd(_, _)
DigitEnd(s, k) == IF k <= Len(s) /\ isdigit(s[k]) THEN DigitEnd(s, k + 1) ELSE k

\* the position after leading blanks
RECURSIVE SkipBlanks(_, _)
SkipBlanks(s, k) == IF k <= Len(s) /\ s[k] = " " THEN SkipBlanks(s, k + 1) ELSE k

\* atoi: blanks, an optional sign, then digits up to the first other character
atoi(s) ==
  LET k == SkipBlanks(s, 1)
      neg == k <= Len(s) /\ s[k] = "-"
      d == IF k <= Len(s) /\ s[k] \in {"-", "+"} THEN k + 1 ELSE k
  IN IF neg THEN 0 - DigitRun(s, d, 0) ELSE DigitRun(s, d, 0)

\* the decimal digits of s from position k on as a number, numbers above cap given as cap
RECURSIVE DigitRunUpTo(_, _, _, _)
DigitRunUpTo(s, k, acc, cap) ==
  IF k <= Len(s) /\ isdigit(s[k])
    THEN DigitRunUpTo(s, k + 1, IF 10 * acc + DigitVal(s[k]) > cap THEN cap ELSE 10 * acc + DigitVal(s[k]), cap)
    ELSE acc

\* the same digits in 32 bits, as 16-bit halves <<hi, lo>>, and whether the number
\* has passed INT_MAX on the way
RECURSIVE DigitRun32(_, _, _)
DigitRun32(s, k, acc) ==
  IF k <= Len(s) /\ isdigit(s[k])
    THEN LET t == 10 * acc.lo + DigitVal(s[k])
             h == 10 * acc.hi + t \div 65536
         IN DigitRun32(s, k + 1, [hi |-> h % 65536, lo |-> t % 65536, over |-> acc.over \/ h >= 32768])
    ELSE acc

\* an int stored in a uint32_t, as its two 16-bit halves: a negative int wraps
ToU32(x) ==
  IF x >= 0 THEN U32(x \div 65536, x % 65536)
  ELSE U32(32768 + (x + 2147483647 + 1) \div 65536, (x + 2147483647 + 1) % 65536)

\* the uint32_t as a number where it fits in 1..65535, and 0 or 65536 where it is below or above
SmallU32(v) == IF v[1] > 0 THEN 65536 ELSE v[2]

\* -x in 32 bits
Negate32(v) == IF v[2] = 0 THEN U32((65536 - v[1]) % 65536, 0) ELSE U32(65535 - v[1], 65536 - v[2])

\* what "uint32_t x = atoi(s)" can leave in x.  For a number that fits an int it is that
\* number.  For one that does not the behaviour of atoi is undefined: glibc and musl
\* give the low 32 bits of the number (glibc: (int)strtol(s,NULL,10), long of 64 bits,
\* numbers below 2^63), the Microsoft runtime gives INT_MAX or INT_MIN
atoi_u32(s) ==
  LET k == SkipBlanks(s, 1)
      neg == k <= Len(s) /\ s[k] = "-"
      d == IF k <= Len(s) /\ s[k] \in {"-", "+"} THEN k + 1 ELSE k
      n == DigitRun32(s, d, [hi |-> 0, lo |-> 0, over |-> FALSE])
      low == IF neg THEN Negate32(U32(n.hi, n.lo)) ELSE U32(n.hi, n.lo)
  IN IF ~n.over THEN {low}
     ELSE {low, IF neg THEN U32(32768, 0) ELSE U32(32767, 65535)}

\* the first three decimals that start at position k, as thousandths
Decimals3(s, k) ==
  LET d(j) == IF k + j <= Len(s) /\ k + j < DigitEnd(s, k) THEN DigitVal(s[k + j]) ELSE 0
  IN 100 * d(0) + 10 * d(1) + d(2)

\* integer parts from here on are far above the 999.9 the harness compares with and
\* are all taken as this one
StrtodCap == 1000000

\* strtod for decimal notation, in thousandths: blanks, an optional sign, digits,
\* an optional point and decimals (the values used have at most three decimals and
\* no exponent; a string that starts no number gives 0)
strtod(s) ==
  LET k == SkipBlanks(s, 1)
      neg == k <= Len(s) /\ s[k] = "-"
      d == IF k <= Len(s) /\ s[k] \in {"-", "+"} THEN k + 1 ELSE k
      e == DigitEnd(s, d)
      frac == IF e <= Len(s) /\ s[e] = "." THEN Decimals3(s, e + 1) ELSE 0
      v == 1000 * DigitRunUpTo(s, d, 0, StrtodCap) + frac
  IN IF neg THEN 0 - v ELSE v

\* (double)((int)(x * 100.0)) / 100.0 for x in thousandths: the hundredths, cut toward zero
CutToHundredths(x) == IF x >= 0 THEN x \div 10 ELSE 0 - ((0 - x) \div 10)

\* hashP1_0 .. hashP4_500M as local_InitHashVerify stores them: local_hashverify[lane][column],
\* the columns being 0, 1, 10M, 50M, 100M, 200M, 500M iterations
local_hashverify ==
  <<
  <<
    \* hashP1_0
    << 46, 253, 100, 165, 84, 99, 181, 181, 84, 196, 162, 226, 42, 71, 45, 162,
       59, 183, 110, 99, 117, 140, 227, 200, 146, 118, 171, 240, 233, 173, 139, 21 >>,
    \* hashP1_1
    << 119, 70, 29, 142, 216, 162, 32, 111, 130, 54, 102, 24, 211, 99, 186, 162,
       255, 221, 153, 27, 93, 45, 128, 152, 109, 188, 248, 47, 88, 164, 243, 243 >>,
    \* hashP1_10M
    << 133, 222, 103, 100, 147, 219, 148, 27, 172, 159, 137, 179, 41, 50, 122, 242,
       67, 54, 33, 128, 7, 24, 235, 181, 215, 146, 107, 212, 245, 255, 237, 151 >>,
    \* hashP1_50M
    << 6, 125, 120, 217, 80, 4, 79, 0, 43, 76, 201, 137, 110, 222, 156, 224,
       90, 92, 169, 250, 74, 15, 110, 105, 190, 24, 142, 108, 149, 97, 108, 237 >>,
    \* hashP1_100M
    << 109, 155, 76, 73, 144, 40, 43, 240, 70, 201, 101, 123, 50, 205, 153, 236,
       20, 53, 22, 106, 238, 107, 76, 35, 60, 190, 172, 31, 40, 90, 101, 170 >>,
    \* hashP1_200M
    << 5, 144, 93, 169, 88, 217, 252, 120, 82, 174, 149, 74, 249, 241, 49, 185,
       90, 31, 164, 7, 24, 110, 155, 104, 125, 229, 125, 73, 212, 5, 91, 241 >>,
    \* hashP1_500M
    << 73, 192, 83, 232, 195, 130, 100, 119, 250, 82, 183, 125, 226, 3, 237, 157,
       224, 209, 206, 4, 93, 160, 26, 69, 192, 86, 227, 101, 63, 159, 114, 158 >>
  >>,
  <<
    \* hashP2_0
    << 115, 229, 193, 245, 54, 126, 31, 173, 125, 66, 170, 172, 170, 41, 95, 16,
       127, 185, 226, 198, 52, 23, 1, 18, 107, 29, 100, 187, 203, 23, 141, 163 >>,
    \* hashP2_1
    << 144, 124, 6, 190, 155, 80, 119, 117, 39, 202, 207, 133, 121, 198, 15, 93,
       235, 49, 201, 122, 1, 231, 86, 215, 233, 144, 62, 142, 7, 177, 230, 85 >>,
    \* hashP2_10M
    << 145, 120, 221, 21, 36, 183, 120, 182, 31, 165, 152, 102, 126, 17, 173, 35,
       200, 189, 28, 3, 97, 0, 54, 224, 30, 225, 103, 169, 75, 199, 223, 255 >>,
    \* hashP2_50M
    << 22, 81, 16, 96, 108, 146, 92, 121, 158, 224, 26, 184, 172, 240, 108, 63,
       6, 131, 153, 68, 212, 244, 50, 166, 32, 141, 117, 57, 63, 11, 251, 123 >>,
    \* hashP2_100M
    << 87, 197, 90, 63, 160, 39, 195, 11, 14, 201, 118, 130, 40, 20, 59, 138,
       98, 245, 52, 11, 122, 182, 230, 28, 207, 94, 254, 135, 166, 169, 39, 93 >>,
    \* hashP2_200M
    << 92, 70, 21, 44, 202, 44, 113, 58, 70, 107, 5, 180, 87, 52, 238, 105,
       197, 36, 223, 69, 253, 2, 202, 117, 236, 121, 239, 212, 216, 56, 46, 3 >>,
    \* hashP2_500M
    << 116, 201, 64, 39, 24, 13, 6, 119, 162, 167, 21, 94, 51, 237, 63, 59,
       115, 65, 91, 146, 255, 187, 51, 121, 127, 117, 193, 132, 71, 101, 31, 134 >>
  >>,
  <<
    \* hashP3_0
    << 5, 39, 81, 104, 98, 16, 161, 218, 206, 134, 45, 71, 65, 70, 160, 3,
       105, 110, 151, 33, 218, 168, 55, 217, 43, 32, 11, 193, 219, 159, 20, 239 >>,
    \* hashP3_1
    << 40, 90, 249, 111, 212, 81, 181, 69, 146, 177, 176, 247, 175, 217, 244, 139,
       9, 147, 244, 48, 220, 216, 180, 230, 221, 118, 173, 28, 71, 45, 61, 185 >>,
    \* hashP3_10M
    << 179, 77, 170, 204, 198, 161, 140, 35, 10, 181, 170, 116, 181, 216, 29, 243,
       173, 35, 212, 135, 35, 179, 28, 20, 209, 204, 183, 177, 209, 231, 49, 164 >>,
    \* hashP3_50M
    << 97, 14, 30, 178, 191, 118, 145, 204, 131, 200, 142, 5, 95, 44, 68, 157,
       181, 154, 18, 251, 3, 0, 219, 229, 201, 25, 52, 195, 243, 122, 78, 214 >>,
    \* hashP3_100M
    << 184, 58, 100, 209, 250, 150, 112, 245, 243, 58, 32, 5, 163, 68, 82, 123,
       75, 101, 58, 184, 5, 45, 78, 239, 53, 6, 198, 214, 20, 200, 223, 68 >>,
    \* hashP3_200M
    << 50, 222, 13, 133, 2, 217, 135, 82, 125, 0, 230, 92, 112, 53, 222, 56,
       242, 113, 188, 133, 248, 67, 105, 160, 24, 37, 91, 75, 46, 31, 217, 219 >>,
    \* hashP3_500M
    << 86, 178, 65, 126, 77, 212, 187, 45, 131, 29, 181, 29, 48, 181, 131, 163,
       127, 31, 140, 166, 7, 239, 255, 91, 4, 97, 236, 152, 118, 68, 13, 238 >>
  >>,
  <<
    \* hashP4_0
    << 202, 106, 7, 121, 205, 169, 225, 14, 57, 144, 90, 120, 93, 66, 141, 110,
       62, 206, 38, 39, 83, 166, 64, 42, 185, 54, 59, 132, 207, 115, 111, 96 >>,
    \* hashP4_1
    << 229, 26, 218, 218, 201, 198, 217, 52, 208, 91, 14, 208, 4, 180, 16, 127,
       194, 150, 28, 153, 127, 98, 42, 21, 202, 139, 85, 176, 95, 165, 139, 96 >>,
    \* hashP4_10M
    << 179, 63, 161, 113, 178, 139, 230, 159, 60, 189, 193, 124, 215, 241, 114, 62,
       32, 59, 133, 205, 236, 178, 166, 144, 228, 97, 16, 125, 245, 238, 62, 4 >>,
    \* hashP4_50M
    << 23, 182, 147, 141, 85, 110, 207, 40, 190, 26, 103, 137, 190, 150, 77, 114,
       191, 231, 251, 204, 169, 87, 138, 66, 34, 205, 10, 97, 182, 52, 138, 74 >>,
    \* hashP4_100M
    << 98, 211, 233, 175, 3, 204, 124, 38, 142, 38, 243, 195, 57, 99, 14, 245,
       58, 113, 114, 104, 123, 209, 118, 107, 225, 25, 234, 83, 226, 59, 171, 153 >>,
    \* hashP4_200M
    << 40, 194, 86, 164, 66, 137, 191, 125, 176, 100, 75, 144, 38, 110, 153, 49,
       52, 71, 144, 40, 104, 181, 16, 153, 196, 15, 76, 49, 193, 40, 145, 164 >>,
    \* hashP4_500M
    << 84, 188, 159, 139, 228, 80, 33, 113, 24, 124, 47, 6, 131, 78, 205, 184,
       166, 250, 189, 17, 67, 182, 242, 75, 122, 235, 215, 8, 144, 133, 90, 221 >>
  >>
  >>
\* the option names
OptI == <<"-", "i">>
OptS == <<"-", "s">>
OptM == <<"-", "m">>
OptT == <<"-", "t">>

\* the two harnesses: benchmark_mt.cxx (pipelined, multithreaded) and benchmark.cxx
Programs == {"benchmark_mt", "benchmark"}

\* the parameter values as main sets them before parsing: -i 10M, -s <not set>, -m MH, -t 1
\* in benchmark_mt.cxx, -i 100M, -s <not set>, -m MH in benchmark.cxx, which has no
\* local_threads and runs its one timed call in main (local_ghzval in hundredths of a GHz)
MainDefaults(prog) ==
  IF prog = "benchmark_mt"
    THEN [local_iters |-> 10000000, local_itersidx |-> 2, local_ghz |-> FALSE,
          local_ghzval |-> 0, local_unit |-> 0, local_unitstr |-> "MH/s", local_threads |-> 1]
    ELSE [local_iters |-> 100000000, local_itersidx |-> 4, local_ghz |-> FALSE,
          local_ghzval |-> 0, local_unit |-> 0, local_unitstr |-> "MH/s", local_threads |-> 1]

\* ParseIters with -i 200M setting the count and leaving the column as it is
ParseIters_CountOnly(s, a) ==
  IF strcasecmp(a, <<"2", "0", "0", "M">>) = 0
    THEN [s EXCEPT !.local_iters = 200000000]
  ELSE s

\* the value of -i
ParseIters(s, a) ==
  IF strcasecmp(a, <<"1", "0", "M">>) = 0
    THEN [s EXCEPT !.local_iters = 10000000, !.local_itersidx = 2]
  ELSE IF strcasecmp(a, <<"5", "0", "M">>) = 0
    THEN [s EXCEPT !.local_iters = 50000000, !.local_itersidx = 3]
  ELSE IF strcasecmp(a, <<"1", "0", "0", "M">>) = 0
    THEN [s EXCEPT !.local_iters = 100000000, !.local_itersidx = 4]
  ELSE IF strcasecmp(a, <<"2", "0", "0", "M">>) = 0
    THEN [s EXCEPT !.local_iters = 200000000, !.local_itersidx = 5]
  ELSE IF strcasecmp(a, <<"5", "0", "0", "M">>) = 0
    THEN [s EXCEPT !.local_iters = 500000000, !.local_itersidx = 6]
  ELSE s

\* the value of -s: below 0.1 or above 999.9 is taken as not set
ParseGhz(s, a) ==
  LET v == strtod(a)
      inrange == ~(v < 100 \/ v > 999900)
  IN [s EXCEPT !.local_ghz = inrange,
               !.local_ghzval = CutToHundredths(IF inrange THEN v ELSE 0)]

\* the value of -m
ParseUnit(s, a) ==
  IF strcasecmp(a, <<"M", "H">>) = 0
    THEN [s EXCEPT !.local_unit = 0, !.local_unitstr = "MH/s"]
  ELSE IF strcasecmp(a, <<"M", "B">>) = 0
    THEN [s EXCEPT !.local_unit = 1, !.local_unitstr = "MB/s"]
  ELSE IF strcasecmp(a, <<"M", "i", "B">>) = 0
    THEN [s EXCEPT !.local_unit = 2, !.local_unitstr = "MiB/s"]
  ELSE IF strcasecmp(a, <<"c", "p", "b">>) = 0
    THEN [s EXCEPT !.local_unit = 3, !.local_unitstr = "cpb"]
  ELSE s

\* local_threads = x; if(local_threads < 1 || local_threads > 256){ local_threads = 1; }
StoreThreads(s, x) ==
  LET v == SmallU32(x)
  IN [s EXCEPT !.local_threads = IF v < 1 \/ v > 256 THEN 1 ELSE v]

\* the value of -t, for a number that fits an int: outside 1..256 is taken as 1
ParseThreads(s, a) == StoreThreads(s, ToU32(atoi(a)))

\* jP after argv[i] has been looked at as an option name; benchmark.cxx has no -t
OptionOf(a, prog) ==
  IF strcmp(a, OptI) = 0 THEN "i"
  ELSE IF strcmp(a, OptS) = 0 THEN "s"
  ELSE IF strcmp(a, OptM) = 0 THEN "m"
  ELSE IF prog = "benchmark_mt" /\ strcmp(a, OptT) = 0 THEN "t"
  ELSE "0"

\* the loop of local_ParseParameters from argv[i] on; argv[0] is the program's name and
\* is not kept, so argv[i] of the source is argv[i] here and argc is Len(argv) + 1.  The
\* branches for i, s and m end with "jP = 0; continue"; the branch for t does not, and
\* goes on to look at the same argv[i] as an option name
RECURSIVE ParseFrom(_, _, _, _, _)
ParseFrom(s, argv, i, jP, prog) ==
  IF ~(i < Len(argv) + 1) THEN s
  ELSE IF jP = "i" THEN ParseFrom(ParseIters(s, argv[i]), argv, i + 1, "0", prog)
  ELSE IF jP = "s" THEN ParseFrom(ParseGhz(s, argv[i]), argv, i + 1, "0", prog)
  ELSE IF jP = "m" THEN ParseFrom(ParseUnit(s, argv[i]), argv, i + 1, "0", prog)
  ELSE ParseFrom(IF jP = "t" THEN ParseThreads(s, argv[i]) ELSE s,
                 argv, i + 1, OptionOf(argv[i], prog), prog)

local_ParseParameters(s, argv, prog) == ParseFrom(s, argv, 1, "0", prog)

\* local_hashverify[i][idx] with the indices of the source, from 0
HashVerify(i, idx) == local_hashverify[i + 1][idx + 1]

\* if(bpipes < 1 || bpipes > 4) bpipes = 1;
ClampPipes(bpipes) == IF bpipes < 1 \/ bpipes > 4 THEN 1 ELSE bpipes

\* for(i < bpipes) memcpy(buf + (32 * i),local_hashverify[i][idx],32), from lane i on
RECURSIVE CopyVerify(_, _, _, _)
CopyVerify(buf, bpipes, idx, i) ==
  IF i < bpipes THEN CopyVerify(MemWrite(buf, 32 * i, HashVerify(i, idx)), bpipes, idx, i + 1)
  ELSE buf

\* !memcmp(buf + (32 * i),local_hashverify[i][idx],32)
LaneMatches(buf, i, idx) == SubSeq(buf, 32 * i + 1, 32 * i + 32) = HashVerify(i, idx)

\* hashok after "hashok = true; for(i < bpipes) if(memcmp(...)) hashok = false;"
CompareVerify(buf, bpipes, idx) == \A i \in 0..(bpipes - 1) : LaneMatches(buf, i, idx)

\* the column of local_hashverify that records the value after n iterations
ColumnFor(n) ==
  CASE n = 0 -> 0
    [] n = 1 -> 1
    [] n = 10000000 -> 2
    [] n = 50000000 -> 3
    [] n = 100000000 -> 4
    [] n = 200000000 -> 5
    [] n = 500000000 -> 6

\* bfunc(buf,n): bfunc is called through a pointer to a function of another
\* translation unit (rec_sha256_fast_x1 .. _x4 are only declared in benchmark_mt.cxx).
\* The harness is modelled for a callee that leaves, in each of its lanes, the value
\* the table records for n iterations, and for a callee that leaves another value in
\* lane bad (bad = 0: in no lane)
bfunc(buf, bpipes, n, bad) ==
  LET good == CopyVerify(buf, bpipes, ColumnFor(n), 0)
  IN IF bad = 0 THEN good
     ELSE [good EXCEPT ![32 * (bad - 1) + 1] = (@ + 1) % 256]

\* the benchmark parameters of a harness that is not running, and of one not yet started
NoPar ==
  [local_iters |-> 0, local_itersidx |-> 0, local_ghz |-> FALSE, local_ghzval |-> 0,
   local_unit |-> 0, local_unitstr |-> "", local_threads |-> 0]

\* memory not yet written, taken as zero bytes
ZeroBuf == [b \in 1..BufLen |-> 0]

BenchAt(prog, pos) ==
  [prog |-> prog, pos |-> pos, par |-> NoPar, variant |-> 0, bpipes |-> 0,
   hashx4 |-> ZeroBuf, hashok |-> FALSE,
   tpc |-> [t \in Threads |-> "off"], loop_hashx4 |-> [t \in Threads |-> ZeroBuf],
   status |-> 0 - 1, log |-> <<>>, wcmp |-> {}]

-----------------------------------------------------------------------------
VARIABLES
  memory,     \* the callers' buffers, one after the other
  rodata,     \* the static const tables
  pc,         \* per caller: "off", "idle", "loop" (inside a call), "done" (call returned)
  fn,         \* per caller: the entry point of its current or last call
  num_iters,  \* per caller: the argument of that call
  loop_i,     \* per caller: the loop variable i of that call
  regs,       \* per frame: the __m128i / uint32x4_t locals
  entry,      \* per caller: its buffer as it was when the call was made
  kcalls,     \* per caller: round instructions done in that call, per register
  ncalls,     \* per caller: calls made
  used,       \* per caller: iterations asked for, over all calls
  bench       \* the harness: where main and local_Benchmark are, their variables

vars == <<memory, rodata, pc, fn, num_iters, loop_i, regs, entry, kcalls, ncalls, used, bench>>

\* the bytes of caller t's buffer
Buffer(t) == SubSeq(memory, BufferOf(t) + 1, BufferOf(t) + BufLen)

\* 32-byte value k of a buffer
Lane(buf, k) == SubSeq(buf, 32 * (k - 1) + 1, 32 * k)

StartVars ==
  /\ rodata = RoData
  /\ loop_i = [t \in Threads |-> 0]
  /\ regs = [t \in Threads |-> <<>>]
  /\ entry = [t \in Threads |-> <<>>]
  /\ kcalls = [t \in Threads |-> <<>>]
  /\ ncalls = [t \in Threads |-> 0]
  /\ used = [t \in Threads |-> 0]

\* one caller (main); its hashx4 holds some input
Init ==
  /\ \E inp \in Inputs : memory = inp \o [b \in 1..(NumThreads - 1) * BufLen |-> 0]
  /\ pc = [t \in Threads |-> IF t = 1 THEN "idle" ELSE "off"]
  /\ fn = [t \in Threads |-> "none"]
  /\ num_iters = [t \in Threads |-> 0]
  /\ bench = BenchAt("none", "off")
  /\ StartVars

\* the environment caller t's call runs in
EnvOf(t) == FastEnv(regs[FrameOf(t)], kcalls[t], memory, BufferOf(t), rodata)

\* what a step of caller t leaves behind
Leave(t, env) ==
  /\ regs' = [regs EXCEPT ![FrameOf(t)] = env.r]
  /\ kcalls' = [kcalls EXCEPT ![t] = env.cnt]
  /\ memory' = env.mem
  /\ rodata' = env.ro

\* Call without the guard on num_iters and with the loop tested at the bottom:
\* a pass is made before num_iters is looked at
Call_BottomTested(t, f, n, j) ==
  /\ pc[t] \in {"idle", "done"}
  /\ ncalls[t] < MaxCalls
  /\ used[t] + n <= MaxIters
  /\ fn' = [fn EXCEPT ![t] = f]
  /\ num_iters' = [num_iters EXCEPT ![t] = n]
  /\ entry' = [entry EXCEPT ![t] = Buffer(t)]
  /\ ncalls' = [ncalls EXCEPT ![t] = @ + 1]
  /\ used' = [used EXCEPT ![t] = @ + n]
  /\ loop_i' = [loop_i EXCEPT ![t] = IF n = 0 THEN -1 ELSE 0]
  /\ pc' = [pc EXCEPT ![t] = "loop"]
  /\ Leave(t, Exec(FastEnv(Locals(f, j), Locals(f, 0), memory, BufferOf(t), rodata),
                   Entry(f), 1))
  /\ UNCHANGED bench

\* caller t calls f(hash, n); j is what the uninitialised locals hold
Call(t, f, n, j) ==
  /\ pc[t] \in {"idle", "done"}
  /\ ncalls[t] < MaxCalls
  /\ used[t] + n <= MaxIters
  /\ fn' = [fn EXCEPT ![t] = f]
  /\ num_iters' = [num_iters EXCEPT ![t] = n]
  /\ entry' = [entry EXCEPT ![t] = Buffer(t)]
  /\ ncalls' = [ncalls EXCEPT ![t] = @ + 1]
  /\ used' = [used EXCEPT ![t] = @ + n]
  /\ loop_i' = [loop_i EXCEPT ![t] = 0]
  /\ pc' = [pc EXCEPT ![t] = IF EarlyReturn(n) THEN "done" ELSE "loop"]
  /\ Leave(t, IF EarlyReturn(n)
                THEN FastEnv(regs[FrameOf(t)], Locals(f, 0), memory, BufferOf(t), rodata)
                ELSE Exec(FastEnv(Locals(f, j), Locals(f, 0), memory, BufferOf(t), rodata),
                          Entry(f), 1))
  /\ UNCHANGED bench

\* one pass of the loop; j is what the uninitialised locals of compress_digest hold
Iterate(t, j) ==
  /\ pc[t] = "loop"
  /\ LoopCond(loop_i[t], num_iters[t])
  /\ loop_i' = [loop_i EXCEPT ![t] = @ + 1]
  /\ Leave(t, Pass(fn[t], EnvOf(t), j))
  /\ UNCHANGED <<pc, fn, num_iters, entry, ncalls, used, bench>>

\* the loop is left; a fast entry point stores its lanes; the call returns
Return(t) ==
  /\ pc[t] = "loop"
  /\ ~LoopCond(loop_i[t], num_iters[t])
  /\ pc' = [pc EXCEPT ![t] = "done"]
  /\ Leave(t, Exec(EnvOf(t), Exit(fn[t]), 1))
  /\ UNCHANGED <<fn, num_iters, loop_i, entry, ncalls, used, bench>>

Next ==
  \E t \in Threads :
    \/ \E f \in Fns, n \in 0..MaxIters, j \in JunkValues : Call(t, f, n, j)
    \/ \E j \in JunkValues : Iterate(t, j)
    \/ Return(t)

Spec == Init /\ [][Next]_vars

-----------------------------------------------------------------------------
(* The benchmark's parallel loop (benchmark_mt.cxx): every thread owns a   *)
(* loop_hashx4 and calls the same entry point with the same num_iters.     *)

\* what thread t's buffer holds before its call
MTInput(t) == IF t % 2 = 1 THEN hashP_0 ELSE AllOnes

\* the buffers of threads t.., one after the other
RECURSIVE MTMemory(_)
MTMemory(t) == IF t > NumThreads THEN <<>> ELSE MTInput(t) \o MTMemory(t + 1)

InitMT ==
  /\ memory = MTMemory(1)
  /\ pc = [t \in Threads |-> "idle"]
  /\ \E f \in Fns, n \in 0..MaxIters :
       /\ fn = [t \in Threads |-> f]
       /\ num_iters = [t \in Threads |-> n]
  /\ bench = BenchAt("none", "off")
  /\ StartVars

\* bfunc(loop_hashx4,local_iters) in thread t
MTCall(t, j) ==
  /\ pc[t] = "idle"
  /\ Call(t, fn[t], num_iters[t], j)

NextMT ==
  \E t \in Threads :
    \/ \E j \in JunkValues : MTCall(t, j)
    \/ \E j \in JunkValues : Iterate(t, j)
    \/ Return(t)

SpecMT == InitMT /\ [][NextMT]_vars

\* what a step of caller t's call does to the control state: the loop variable
\* goes up by one while the loop condition holds, the call returns when it fails
Advance(t) ==
  /\ pc[t] = "loop"
  /\ IF LoopCond(loop_i[t], num_iters[t])
       THEN loop_i' = [loop_i EXCEPT ![t] = @ + 1] /\ pc' = pc
       ELSE loop_i' = loop_i /\ pc' = [pc EXCEPT ![t] = "done"]

\* a thread inside a call goes on executing: the loop has no wait, no lock and no
\* call that blocks
FairSpec == Spec /\ \A t \in Threads : WF_<<pc, loop_i>>(Advance(t))

-----------------------------------------------------------------------------
(* Properties.                                                             *)

\* hashP1_1 .. hashP4_1 of local_InitHashVerify: the values after one iteration
hashP_1 ==
  <<
    119, 70, 29, 142, 216, 162, 32, 111, 130, 54, 102, 24, 211, 99, 186, 162,
    255, 221, 153, 27, 93, 45, 128, 152, 109, 188, 248, 47, 88, 164, 243, 243,
    144, 124, 6, 190, 155, 80, 119, 117, 39, 202, 207, 133, 121, 198, 15, 93,
    235, 49, 201, 122, 1, 231, 86, 215, 233, 144, 62, 142, 7, 177, 230, 85,
    40, 90, 249, 111, 212, 81, 181, 69, 146, 177, 176, 247, 175, 217, 244, 139,
    9, 147, 244, 48, 220, 216, 180, 230, 221, 118, 173, 28, 71, 45, 61, 185,
    229, 26, 218, 218, 201, 198, 217, 52, 208, 91, 14, 208, 4, 180, 16, 127,
    194, 150, 28, 153, 127, 98, 42, 21, 202, 139, 85, 176, 95, 165, 139, 96 >>

\* an uninitialised local that happens to hold zero
NoJunk == <<U32(0, 0), U32(0, 0), U32(0, 0), U32(0, 0)>>

\* the buffer a solitary call f(buf, n) leaves, made first in a fresh program
Solo(f, buf, n) == CallResult(f, buf, 0, n, NoJunk)

\* the reference for a fast function and the other way round
VariantPeer(f) ==
  CASE f = "rec_sha256_reference" -> "rec_sha256_fast"
    [] f = "rec_sha256_fast"      -> "rec_sha256_reference"
    [] f = "rsha256_ref"          -> "rsha256_fast"
    [] f = "rsha256_fast"         -> "rsha256_ref"

\* the function of the same kind in the other backend
BackendPeer(f) ==
  CASE f = "rec_sha256_reference" -> "rsha256_ref"
    [] f = "rec_sha256_fast"      -> "rsha256_fast"
    [] f = "rec_sha256_fast_x1"   -> "rsha256_fast_x1"
    [] f = "rec_sha256_fast_x2"   -> "rsha256_fast_x2"
    [] f = "rec_sha256_fast_x3"   -> "rsha256_fast_x3"
    [] f = "rec_sha256_fast_x4"   -> "rsha256_fast_x4"
    [] f = "rsha256_ref"          -> "rec_sha256_reference"
    [] f = "rsha256_fast"         -> "rec_sha256_fast"
    [] f = "rsha256_fast_x1"      -> "rec_sha256_fast_x1"
    [] f = "rsha256_fast_x2"      -> "rec_sha256_fast_x2"
    [] f = "rsha256_fast_x3"      -> "rec_sha256_fast_x3"
    [] f = "rsha256_fast_x4"      -> "rec_sha256_fast_x4"

\* _x1 for the non-pipelined fast function and the other way round
PipelinePeer(f) ==
  CASE f = "rec_sha256_fast"    -> "rec_sha256_fast_x1"
    [] f = "rec_sha256_fast_x1" -> "rec_sha256_fast"
    [] f = "rsha256_fast"       -> "rsha256_fast_x1"
    [] f = "rsha256_fast_x1"    -> "rsha256_fast"

\* the width-1 entry point of f's backend
Width1(f) == IF IsArm(f) THEN "rsha256_fast_x1" ELSE "rec_sha256_fast_x1"

\* the first n 32-byte values of a buffer in reverse order, the rest as it is
RECURSIVE LanesReversed(_, _)
LanesReversed(buf, n) ==
  IF n = 0 THEN SubSeq(buf, 1, 0)
  ELSE Lane(buf, n) \o LanesReversed(buf, n - 1)

ReverseLanes(buf, n) == LanesReversed(buf, n) \o SubSeq(buf, 32 * n + 1, Len(buf))

\* C1: a call with num_iters == 1 leaves SingleBlockHash(H) where H was: the
\* SHA-256 compression of the padded 64-byte block built from H, from the fixed
\* initial chaining value; for every lane of every entry point.
C1_SingleStep ==
  \A t \in Threads :
    (pc[t] = "done" /\ num_iters[t] = 1) =>
      \A k \in 1..Lanes(fn[t]) :
        Lane(Buffer(t), k) = SingleBlockHash(Lane(entry[t], k))

\* rec_sha256_reference(hashP1_0, 1) has returned and left hashP1_1
C1_Witness ==
  /\ pc[1] = "done" /\ fn[1] = "rec_sha256_reference" /\ num_iters[1] = 1
  /\ Lane(entry[1], 1) = Lane(hashP_0, 1)
  /\ Lane(Buffer(1), 1) = Lane(hashP_1, 1)

\* C2: the buffer after a call with num_iters iterations holds the
\* num_iters-fold self-application of the single-block hash to the input, so
\* Engine(H, n+1) = SingleBlockHash(Engine(H, n)).
C2_Iterated ==
  \A t \in Threads :
    pc[t] = "done" =>
      \A k \in 1..Lanes(fn[t]) :
        Lane(Buffer(t), k) = IterHash(Lane(entry[t], k), num_iters[t])

\* rec_sha256_fast(hashP1_0, 2) has returned the hash of hashP1_1
C2_Witness ==
  /\ pc[1] = "done" /\ fn[1] = "rec_sha256_fast" /\ num_iters[1] = 2
  /\ Lane(entry[1], 1) = Lane(hashP_0, 1)
  /\ Lane(Buffer(1), 1) = SingleBlockHash(Lane(hashP_1, 1))

\* C3: a call with num_iters == 0, of any entry point on any buffer, returns
\* with every byte of the buffer unchanged.
C3_ZeroIterations ==
  \A t \in Threads :
    (pc[t] = "done" /\ num_iters[t] = 0) => Buffer(t) = entry[t]

\* rsha256_fast_x4(hashx4, 0) has returned, called after a call that changed hashx4
C3_Witness ==
  /\ pc[1] = "done" /\ fn[1] = "rsha256_fast_x4" /\ num_iters[1] = 0
  /\ ncalls[1] = 2 /\ used[1] > 0
  /\ Buffer(1) = entry[1]

\* C4: for every input and num_iters the reference variant and the fast
\* variant leave byte-identical buffers.
C4_RefFastAgree ==
  \A t \in Threads :
    (pc[t] = "done" /\ fn[t] \in {"rec_sha256_reference", "rec_sha256_fast",
                                    "rsha256_ref", "rsha256_fast"}) =>
      Buffer(t) = Solo(VariantPeer(fn[t]), entry[t], num_iters[t])

\* rec_sha256_reference(hashx4, 2) has returned with a changed buffer
C4_Witness ==
  /\ pc[1] = "done" /\ fn[1] = "rec_sha256_reference" /\ num_iters[1] = 2
  /\ Buffer(1) # entry[1]
  /\ Buffer(1) = Solo("rec_sha256_fast", entry[1], 2)

\* C5: a width-N call (N = 2, 3, 4) on H1||...||HN with k iterations leaves the
\* concatenation of the results of N width-1 calls on the Hi, and nothing else
\* changed; reordering the lanes reorders the results and nothing more.
C5_LaneIndependence ==
  \A t \in Threads :
    (pc[t] = "done" /\ Lanes(fn[t]) >= 2) =>
      /\ \A k \in 1..Lanes(fn[t]) :
           Lane(Buffer(t), k) = Solo(Width1(fn[t]), Lane(entry[t], k), num_iters[t])
      /\ SubSeq(Buffer(t), 32 * Lanes(fn[t]) + 1, BufLen)
           = SubSeq(entry[t], 32 * Lanes(fn[t]) + 1, BufLen)
      /\ ReverseLanes(Buffer(t), Lanes(fn[t]))
           = Solo(fn[t], ReverseLanes(entry[t], Lanes(fn[t])), num_iters[t])

\* rsha256_fast_x4 has returned after one iteration on four different values
C5_Witness ==
  /\ pc[1] = "done" /\ fn[1] = "rsha256_fast_x4" /\ num_iters[1] = 1
  /\ entry[1] = hashP_0
  /\ Buffer(1) = hashP_1

\* C6: the Intel SHA Extensions backend and the ARM Cryptography Extensions
\* backend leave identical bytes for identical input and iteration count.
C6_BackendsAgree ==
  \A t \in Threads :
    pc[t] = "done" => Buffer(t) = Solo(BackendPeer(fn[t]), entry[t], num_iters[t])

\* rsha256_ref(hashx4, 1) has returned what rec_sha256_reference returns
C6_Witness ==
  /\ pc[1] = "done" /\ fn[1] = "rsha256_ref" /\ num_iters[1] = 1
  /\ Buffer(1) # entry[1]
  /\ Buffer(1) = Solo("rec_sha256_reference", entry[1], 1)

\* C7: the width-1 pipelined entry point (_x1) and the non-pipelined fast
\* function leave the same bytes for every input and num_iters.
C7_X1IsFast ==
  \A t \in Threads :
    (pc[t] = "done" /\ fn[t] \in {"rec_sha256_fast", "rec_sha256_fast_x1",
                                    "rsha256_fast", "rsha256_fast_x1"}) =>
      Buffer(t) = Solo(PipelinePeer(fn[t]), entry[t], num_iters[t])

\* rec_sha256_fast_x1(hashx4, 2) has returned what rec_sha256_fast returns
C7_Witness ==
  /\ pc[1] = "done" /\ fn[1] = "rec_sha256_fast_x1" /\ num_iters[1] = 2
  /\ Buffer(1) # entry[1]
  /\ Buffer(1) = Solo("rec_sha256_fast", entry[1], 2)

\* C8: after any earlier calls a call leaves the bytes the same call leaves when
\* it is made first: whatever the locals held at entry, whatever was called
\* before; and the constant tables are never modified.
C8_NoStateLeak ==
  /\ rodata = RoData
  /\ \A t \in Threads :
       pc[t] = "done" => Buffer(t) = Solo(fn[t], entry[t], num_iters[t])

\* a second call has returned, made with locals holding other bits than zero
\* (the reference's) after a first call that did an iteration
C8_Witness ==
  /\ pc[1] = "done" /\ ncalls[1] = 2 /\ num_iters[1] = 1 /\ used[1] = 2
  /\ fn[1] = "rsha256_fast_x2"
  /\ rodata = RoData
  /\ Buffer(1) = Solo(fn[1], entry[1], 1)

\* the position of every caller is one of the four; the loop variable never passes
\* num_iters; a call that has returned has done num_iters passes of the 64 rounds
\* for each lane
C9_Safety ==
  \A t \in Threads :
    /\ pc[t] \in {"off", "idle", "loop", "done"}
    /\ loop_i[t] <= num_iters[t]
    /\ pc[t] = "done" =>
         /\ loop_i[t] = num_iters[t]
         /\ \A k \in 1..Lanes(fn[t]) :
              Rounds(kcalls[t], fn[t], k) = RoundsPerPass * num_iters[t]

\* C9: for every buffer content and num_iters >= 0 a call returns, with no
\* error state, after exactly num_iters passes of the compression kernel for
\* each lane: nothing cancels the loop or cuts it short.
C9_RunsToCompletion ==
  /\ []C9_Safety
  /\ \A t \in Threads : (pc[t] = "loop") ~> (pc[t] = "done")

\* rec_sha256_fast_x3(hashx4, 2) has returned: 64 round instructions for lane 3
C9_Witness ==
  /\ pc[1] = "done" /\ fn[1] = "rec_sha256_fast_x3" /\ num_iters[1] = 2
  /\ loop_i[1] = 2
  /\ Rounds(kcalls[1], fn[1], 3) = 2 * RoundsPerPass

\* C10: threads calling concurrently on pairwise disjoint buffers: under every
\* interleaving a buffer is untouched until its thread calls and ends holding
\* what a solitary call with the same input and iteration count leaves.
C10_DisjointBuffers ==
  \A t \in Threads :
    /\ pc[t] = "idle" => Buffer(t) = MTInput(t)
    /\ pc[t] = "done" => Buffer(t) = Solo(fn[t], MTInput(t), num_iters[t])

\* two threads have returned from rec_sha256_fast_x4(loop_hashx4, 2), each with its own result
C10_Witness ==
  /\ \A t \in Threads : pc[t] = "done" /\ num_iters[t] = 2
  /\ fn[1] = "rec_sha256_fast_x4"
  /\ Buffer(1) # Buffer(2)
  /\ Buffer(2) = Solo(fn[2], AllOnes, 2)

-----------------------------------------------------------------------------
(* The harness as a state machine: main and local_Benchmark of             *)
(* benchmark_mt.cxx and of benchmark.cxx.  bench holds                     *)
(*   prog      which of the two programs runs                             *)
(*   pos       where main is: "start", then inside local_Benchmark before  *)
(*             the call with 0 iterations ("check0"), with 1 iteration     *)
(*             ("check1"), the spin run ("spin"), in the timed run         *)
(*             ("timed"), and "exit" after main has returned               *)
(*   par       local_iters .. local_threads                                *)
(*   variant   which call of local_Benchmark main is in, bpipes its pipes  *)
(*   hashx4, hashok   the locals of local_Benchmark                        *)
(*   tpc, loop_hashx4   per thread of the parallel loop: "off", "ready"    *)
(*             (before bfunc), "ran" (bfunc returned), "end"; its buffer   *)
(*   status    what main returned, -1 while it runs                        *)
(*   log       what main has done so far, wcmp the comparisons the         *)
(*             threads of the timed runs have made                         *)

\* main calls local_Benchmark for _x1, _x2, _x3, _x4 (benchmark_mt.cxx), for
\* rsha256_fast and rsha256_ref (benchmark.cxx)
NumVariants(prog) == IF prog = "benchmark_mt" THEN 4 ELSE 2

\* the argument bpipes of the call for variant v; benchmark.cxx works on one hash[32]
PipesOf(prog, v) == IF prog = "benchmark_mt" THEN v ELSE 1

\* the threads the parallel loop runs; benchmark.cxx makes its timed call in main
Workers(b) ==
  IF b.prog = "benchmark_mt"
    THEN {t \in Threads : t <= b.par.local_threads}
    ELSE {1}

\* an entry of log
Event(b, ev, ok) == [v |-> b.variant, ev |-> ev, ok |-> ok]

\* main enters local_Benchmark for variant v: the locals are new
Enter(b, v) ==
  [b EXCEPT !.variant = v, !.bpipes = ClampPipes(PipesOf(b.prog, v)), !.pos = "check0",
            !.hashx4 = ZeroBuf, !.hashok = FALSE]

\* Fail with main going on to the next variant after local_Benchmark returned 1
Fail_GoOn(b) ==
  LET b1 == [b EXCEPT !.log = Append(@, Event(b, "ret", FALSE))]
  IN IF b.variant < NumVariants(b.prog)
       THEN Enter(b1, b.variant + 1)
       ELSE [b1 EXCEPT !.pos = "exit", !.status = 1]

\* local_Benchmark returns 1 and main returns 1
Fail(b) ==
  [b EXCEPT !.pos = "exit", !.status = 1, !.log = Append(@, Event(b, "ret", FALSE))]

\* local_Benchmark returns 0: main goes on to the next variant or returns 0
Pass0(b) ==
  LET b1 == [b EXCEPT !.log = Append(@, Event(b, "ret", TRUE))]
  IN IF b.variant < NumVariants(b.prog)
       THEN Enter(b1, b.variant + 1)
       ELSE [b1 EXCEPT !.pos = "exit", !.status = 0]

\* command-line words the harness may be given
ArgWords ==
  {OptI, OptS, OptM, OptT, <<"5", "0", "M">>, <<"2", ".", "5">>, <<"c", "p", "b">>, <<"2">>}

\* arguments on one command line, at most
MaxArgs == 3

\* the command lines of up to n words
RECURSIVE ArgLines(_)
ArgLines(n) ==
  IF n = 0 THEN {<<>>}
  ELSE ArgLines(n - 1) \cup {Append(l, w) : l \in {x \in ArgLines(n - 1) : Len(x) = n - 1}, w \in ArgWords}

EngineVars == <<memory, rodata, pc, fn, num_iters, loop_i, regs, entry, kcalls, ncalls, used>>

\* the program has been loaded: nothing of main has run, no engine call is in progress
InitBench ==
  /\ \E prog \in Programs : bench = BenchAt(prog, "start")
  /\ memory = [b \in 1..NumThreads * BufLen |-> 0]
  /\ pc = [t \in Threads |-> "off"]
  /\ fn = [t \in Threads |-> "none"]
  /\ num_iters = [t \in Threads |-> 0]
  /\ StartVars

\* main up to the first call of bfunc: defaults, local_ParseParameters, local_Benchmark's
\* first lines
Main(argv) ==
  /\ bench.pos = "start"
  /\ bench' = Enter([bench EXCEPT !.par = local_ParseParameters(MainDefaults(bench.prog), argv,
                                                                 bench.prog)], 1)
  /\ UNCHANGED EngineVars

\* memcpy of the 0-iteration vectors, bfunc(hashx4,0), the comparison, return 1 on a mismatch
Check0(bad) ==
  /\ bench.pos = "check0"
  /\ LET buf == bfunc(CopyVerify(bench.hashx4, bench.bpipes, 0, 0), bench.bpipes, 0, bad)
         ok == CompareVerify(buf, bench.bpipes, 0)
         b1 == [bench EXCEPT !.hashx4 = buf, !.hashok = ok,
                             !.log = Append(@, Event(bench, "cmp0", ok))]
     IN bench' = IF ~ok THEN Fail(b1) ELSE [b1 EXCEPT !.pos = "check1"]
  /\ UNCHANGED EngineVars

\* Check1 without the return on a mismatch: the spin run follows
Check1_NoReturn(bad) ==
  /\ bench.pos = "check1"
  /\ LET buf == bfunc(CopyVerify(bench.hashx4, bench.bpipes, 0, 0), bench.bpipes, 1, bad)
         ok == CompareVerify(buf, bench.bpipes, 1)
         b1 == [bench EXCEPT !.hashx4 = buf, !.hashok = ok,
                             !.log = Append(@, Event(bench, "cmp1", ok))]
     IN bench' = [b1 EXCEPT !.pos = "spin"]
  /\ UNCHANGED EngineVars

\* memcpy of the 0-iteration vectors, bfunc(hashx4,1), the comparison with the
\* 1-iteration vectors, return 1 on a mismatch
Check1(bad) ==
  /\ bench.pos = "check1"
  /\ LET buf == bfunc(CopyVerify(bench.hashx4, bench.bpipes, 0, 0), bench.bpipes, 1, bad)
         ok == CompareVerify(buf, bench.bpipes, 1)
         b1 == [bench EXCEPT !.hashx4 = buf, !.hashok = ok,
                             !.log = Append(@, Event(bench, "cmp1", ok))]
     IN bench' = IF ~ok THEN Fail(b1) ELSE [b1 EXCEPT !.pos = "spin"]
  /\ UNCHANGED EngineVars

\* the spin run: memcpy, bfunc(hashx4,local_iters), no comparison; then hashok = true,
\* timestart, and the parallel loop starts (benchmark.cxx: the memcpy before its timed call)
Spin(bad) ==
  /\ bench.pos = "spin"
  /\ LET buf == bfunc(CopyVerify(bench.hashx4, bench.bpipes, 0, 0), bench.bpipes,
                      bench.par.local_iters, bad)
     IN bench' = [bench EXCEPT
          !.hashx4 = IF bench.prog = "benchmark_mt" THEN buf ELSE CopyVerify(buf, 1, 0, 0),
          !.hashok = IF bench.prog = "benchmark_mt" THEN TRUE ELSE @,
          !.tpc = [t \in Threads |-> IF t \in Workers(bench) THEN "ready" ELSE "off"],
          !.log = Append(Append(@, Event(bench, "spin", TRUE)), Event(bench, "timed", TRUE)),
          !.pos = "timed"]
  /\ UNCHANGED EngineVars

\* one thread of the parallel loop: memcpy into its loop_hashx4 and bfunc(loop_hashx4,
\* local_iters); in benchmark.cxx main's bfunc(hash,local_iters)
WorkerRun(t, bad) ==
  /\ bench.pos = "timed"
  /\ bench.tpc[t] = "ready"
  /\ bench' =
       IF bench.prog = "benchmark_mt"
         THEN [bench EXCEPT
                 !.loop_hashx4[t] = bfunc(CopyVerify(@, bench.bpipes, 0, 0), bench.bpipes,
                                          bench.par.local_iters, bad),
                 !.tpc[t] = "ran"]
         ELSE [bench EXCEPT
                 !.hashx4 = bfunc(@, bench.bpipes, bench.par.local_iters, bad),
                 !.tpc[t] = "end"]
  /\ UNCHANGED EngineVars

\* WorkerCompare with hashok assigned the outcome of this thread's comparison
WorkerCompare_Overwrite(t) ==
  /\ bench.pos = "timed"
  /\ bench.tpc[t] = "ran"
  /\ LET ok == CompareVerify(bench.loop_hashx4[t], bench.bpipes, bench.par.local_itersidx)
     IN bench' = [bench EXCEPT
          !.hashok = ok,
          !.wcmp = @ \cup {[v |-> bench.variant, t |-> t, ok |-> ok]},
          !.loop_hashx4[t] = ZeroBuf,
          !.tpc[t] = "end"]
  /\ UNCHANGED EngineVars

\* WorkerCompare looking at the first lane only
WorkerCompare_FirstLane(t) ==
  /\ bench.pos = "timed"
  /\ bench.tpc[t] = "ran"
  /\ LET ok == LaneMatches(bench.loop_hashx4[t], 0, bench.par.local_itersidx)
     IN bench' = [bench EXCEPT
          !.hashok = IF ok THEN @ ELSE FALSE,
          !.wcmp = @ \cup {[v |-> bench.variant, t |-> t, ok |-> ok]},
          !.loop_hashx4[t] = ZeroBuf,
          !.tpc[t] = "end"]
  /\ UNCHANGED EngineVars

\* the same thread: for(i < bpipes) if(memcmp(...)) hashok = false; its loop_hashx4 ends
WorkerCompare(t) ==
  /\ bench.pos = "timed"
  /\ bench.tpc[t] = "ran"
  /\ LET ok == CompareVerify(bench.loop_hashx4[t], bench.bpipes, bench.par.local_itersidx)
     IN bench' = [bench EXCEPT
          !.hashok = IF ok THEN @ ELSE FALSE,
          !.wcmp = @ \cup {[v |-> bench.variant, t |-> t, ok |-> ok]},
          !.loop_hashx4[t] = ZeroBuf,
          !.tpc[t] = "end"]
  /\ UNCHANGED EngineVars

\* ReportLine printing "verify hash: ok" whatever hashok is
ReportLine_AlwaysOk(b, ok) ==
  [v |-> b.variant, ev |-> IF b.par.local_unit = 3 /\ ~b.par.local_ghz THEN "n/a" ELSE "figure",
   ok |-> TRUE]

\* the line printed for the timed run: no figure for cpb without -s
ReportLine(b, ok) ==
  [v |-> b.variant, ev |-> IF b.par.local_unit = 3 /\ ~b.par.local_ghz THEN "n/a" ELSE "figure",
   ok |-> ok]

\* after the loop: timestop; if(timediff <= 0.0) return 1; (benchmark.cxx: the comparison
\* is made here;) the line with the figure and "verify hash"; if(!hashok) return 1; return 0
Join(elapsed) ==
  /\ bench.pos = "timed"
  /\ \A t \in Threads : bench.tpc[t] \in {"off", "end"}
  /\ LET b0 == [bench EXCEPT !.tpc = [t \in Threads |-> "off"]]
         ok == IF bench.prog = "benchmark_mt" THEN bench.hashok
               ELSE CompareVerify(bench.hashx4, bench.bpipes, bench.par.local_itersidx)
         b1 == [b0 EXCEPT
                  !.hashok = ok,
                  !.wcmp = IF bench.prog = "benchmark_mt" THEN @
                           ELSE @ \cup {[v |-> bench.variant, t |-> 1, ok |-> ok]},
                  !.log = Append(@, ReportLine(bench, ok))]
     IN bench' = IF elapsed <= 0 THEN Fail(b0)
                 ELSE IF ~ok THEN Fail(b1)
                 ELSE Pass0(b1)
  /\ UNCHANGED EngineVars

NextBench ==
  \/ \E argv \in ArgLines(MaxArgs) : Main(argv)
  \/ \E bad \in 0..bench.bpipes : Check0(bad)
  \/ \E bad \in 0..bench.bpipes : Check1(bad)
  \/ \E bad \in 0..bench.bpipes : Spin(bad)
  \/ \E t \in Threads, bad \in 0..bench.bpipes : WorkerRun(t, bad)
  \/ \E t \in Threads : WorkerCompare(t)
  \/ \E elapsed \in {0, 1} : Join(elapsed)

SpecBench == InitBench /\ [][NextBench]_vars

\* a thread inside main or the parallel loop goes on executing: every call of bfunc
\* returns, nothing in the harness waits
FairBench == SpecBench /\ WF_vars(NextBench)

-----------------------------------------------------------------------------
(* Properties of the harness.                                              *)

\* main has logged ev with outcome ok for variant v at position k of log
Logged(k, v, ev, ok) ==
  k \in 1..Len(bench.log) /\ bench.log[k] = [v |-> v, ev |-> ev, ok |-> ok]

\* both consistency checks of variant v were made and passed, in order, before position k
ChecksPassedBefore(v, k) ==
  \E i \in 1..(k - 1), j \in 1..(k - 1) :
    i < j /\ Logged(i, v, "cmp0", TRUE) /\ Logged(j, v, "cmp1", TRUE)

\* a spin run or a timed run of variant v is in log
HasRun(v) == \E m \in 1..Len(bench.log) : bench.log[m].v = v /\ bench.log[m].ev \in {"spin", "timed"}

\* C11: for each benchmarked variant the comparisons of the 0-iteration and the
\* 1-iteration result with the literal vectors are complete before a spin run or a
\* timed run of that variant starts, and after a failed comparison no spin run and no
\* timed run of that variant is ever made.
C11_ChecksBeforeRuns ==
  /\ \A k \in 1..Len(bench.log) :
       bench.log[k].ev \in {"spin", "timed"} => ChecksPassedBefore(bench.log[k].v, k)
  /\ (bench.pos \in {"spin", "timed"} \/ \E t \in Threads : bench.tpc[t] # "off") =>
       ChecksPassedBefore(bench.variant, Len(bench.log) + 1)
  /\ \A k \in 1..Len(bench.log) :
       (bench.log[k].ev \in {"cmp0", "cmp1"} /\ ~bench.log[k].ok) =>
         /\ ~HasRun(bench.log[k].v)
         /\ bench.pos = "exit"
         /\ \A t \in Threads : bench.tpc[t] = "off"

\* benchmark_mt has run _x1 to the end, then the 1-iteration comparison of _x2 failed
\* and main returned without a spin run or a timed run of _x2
C11_Witness ==
  /\ bench.prog = "benchmark_mt" /\ bench.pos = "exit" /\ bench.variant = 2
  /\ HasRun(1) /\ ~HasRun(2)
  /\ \E k \in 1..Len(bench.log) : Logged(k, 2, "cmp1", FALSE)

\* a comparison of variant v with a literal vector has failed
Mismatch(v) ==
  \/ \E k \in 1..Len(bench.log) : Logged(k, v, "cmp0", FALSE) \/ Logged(k, v, "cmp1", FALSE)
  \/ \E c \in bench.wcmp : c.v = v /\ ~c.ok

\* main has returned 1 right after local_Benchmark returned nonzero for variant v
ExitedInvalid(v) ==
  /\ bench.pos = "exit" /\ bench.status = 1 /\ bench.variant = v
  /\ Logged(Len(bench.log), v, "ret", FALSE)

\* after a mismatch the run is never taken as valid: main is still in that call of
\* local_Benchmark, or has returned 1 right after it returned nonzero
C12_Safety ==
  \A v \in 1..4 :
    Mismatch(v) =>
      /\ bench.variant = v
      /\ bench.status # 0
      /\ bench.pos \in {"timed", "exit"}
      /\ bench.pos = "exit" => ExitedInvalid(v)
      /\ (\E k \in 1..Len(bench.log) : Logged(k, v, "cmp0", FALSE) \/ Logged(k, v, "cmp1", FALSE))
           => bench.pos = "exit"

\* C12: on any mismatch between an engine result and its literal vector (0-iteration,
\* 1-iteration or full-count comparison, any lane, any thread) the whole run is
\* invalid: local_Benchmark returns nonzero and the process exits with status 1.
C12_MismatchInvalidates ==
  /\ []C12_Safety
  /\ \A v \in 1..4 : Mismatch(v) ~> ExitedInvalid(v)

\* in the timed run of _x2 thread 1 found its lanes equal and thread 2 did not; main
\* has returned 1
C12_Witness ==
  /\ bench.prog = "benchmark_mt" /\ ExitedInvalid(2)
  /\ [v |-> 2, t |-> 1, ok |-> TRUE] \in bench.wcmp
  /\ [v |-> 2, t |-> 2, ok |-> FALSE] \in bench.wcmp

-----------------------------------------------------------------------------
(* The timed run of benchmark_mt.cxx with the engines behind bfunc: the     *)
(* threads of the parallel loop call the entry point main passed, on their *)
(* own loop_hashx4 (caller t's buffer).                                    *)

\* the entry point main passes to local_Benchmark for variant v
BenchFn(v) ==
  CASE v = 1 -> "rec_sha256_fast_x1"
    [] v = 2 -> "rec_sha256_fast_x2"
    [] v = 3 -> "rec_sha256_fast_x3"
    [] v = 4 -> "rec_sha256_fast_x4"

\* a command line that gives the options of the set o, each with a value
OptLine(o) ==
  (IF "i" \in o THEN <<OptI, <<"5", "0", "M">>>> ELSE <<>>) \o
  (IF "s" \in o THEN <<OptS, <<"2", ".", "5">>>> ELSE <<>>) \o
  (IF "m" \in o THEN <<OptM, <<"c", "p", "b">>>> ELSE <<>>) \o
  (IF "t" \in o THEN <<OptT, <<"2">>>> ELSE <<>>)

\* the count of all threads together (alliters without bpipes) passed to bfunc
TimedIters_AllThreads(par) == par.local_iters * par.local_threads

\* the second argument of bfunc(loop_hashx4,local_iters)
TimedIters(par) == par.local_iters

\* the passes made here for a call with n iterations: one for the 10M of the default,
\* MaxIters for the larger counts
ModelPasses(n) == IF n = 10000000 THEN 1 ELSE MaxIters

\* local_Benchmark has reached the parallel loop for some variant, under some command line
InitTimed ==
  /\ \E o \in SUBSET {"i", "s", "m", "t"}, v \in 1..4 :
       LET par == local_ParseParameters(MainDefaults("benchmark_mt"), OptLine(o), "benchmark_mt")
           b == Enter([BenchAt("benchmark_mt", "start") EXCEPT !.par = par], v)
       IN /\ bench = [b EXCEPT !.pos = "timed", !.hashok = TRUE,
                               !.tpc = [t \in Threads |-> IF t \in Workers(b) THEN "ready" ELSE "off"]]
          /\ pc = [t \in Threads |-> IF t \in Workers(b) THEN "idle" ELSE "off"]
  /\ memory = [b \in 1..NumThreads * BufLen |-> 0]
  /\ fn = [t \in Threads |-> "none"]
  /\ num_iters = [t \in Threads |-> 0]
  /\ StartVars

\* thread t of the parallel loop: the memcpy of the 0-iteration vectors into its
\* loop_hashx4, then bfunc(loop_hashx4,local_iters) up to the engine's loop
TimedCall(t, j) ==
  /\ bench.pos = "timed"
  /\ bench.tpc[t] = "ready"
  /\ pc[t] = "idle"
  /\ LET buf == CopyVerify(Buffer(t), bench.bpipes, 0, 0)
         mem == MemWrite(memory, BufferOf(t), buf)
         f == BenchFn(bench.variant)
         n == ModelPasses(TimedIters(bench.par))
     IN /\ fn' = [fn EXCEPT ![t] = f]
        /\ num_iters' = [num_iters EXCEPT ![t] = n]
        /\ entry' = [entry EXCEPT ![t] = buf]
        /\ ncalls' = [ncalls EXCEPT ![t] = @ + 1]
        /\ used' = [used EXCEPT ![t] = @ + n]
        /\ loop_i' = [loop_i EXCEPT ![t] = 0]
        /\ pc' = [pc EXCEPT ![t] = IF EarlyReturn(n) THEN "done" ELSE "loop"]
        /\ Leave(t, IF EarlyReturn(n)
                      THEN FastEnv(regs[FrameOf(t)], Locals(f, 0), mem, BufferOf(t), rodata)
                      ELSE Exec(FastEnv(Locals(f, j), Locals(f, 0), mem, BufferOf(t), rodata),
                                Entry(f), 1))
  /\ bench' = [bench EXCEPT !.tpc[t] = "called"]

NextTimed ==
  \E t \in Threads :
    \/ \E j \in JunkValues : TimedCall(t, j)
    \/ \E j \in JunkValues : Iterate(t, j)
    \/ Return(t)

SpecTimed == InitTimed /\ [][NextTimed]_vars

\* what a lane-for-lane run of variant v's entry point for the iteration count iters
\* leaves of the 0-iteration vectors
EngineBytes(v, iters) ==
  Solo(BenchFn(v), CopyVerify(ZeroBuf, ClampPipes(v), 0, 0), ModelPasses(iters))

\* C13: the bytes an engine produces for a given input and iteration count are the
\* same whatever the measurement unit, the CPU-speed hint and the thread count: every
\* thread's call gets the 0-iteration vectors and the count of -i, and leaves what a
\* call of that entry point alone leaves for them.
C13_SettingsDoNotReachEngine ==
  \A t \in Threads :
    pc[t] \in {"loop", "done"} =>
      /\ fn[t] = BenchFn(bench.variant)
      /\ entry[t] = CopyVerify(ZeroBuf, bench.bpipes, 0, 0)
      /\ num_iters[t] = ModelPasses(bench.par.local_iters)
      /\ pc[t] = "done" => Buffer(t) = EngineBytes(bench.variant, bench.par.local_iters)

\* under -s 2.5 -m cpb -t 2 the second thread's call of _x2 has returned and left the
\* 1-iteration vectors, as the first thread's has
C13_Witness ==
  /\ bench.par.local_ghz /\ bench.par.local_ghzval = 250
  /\ bench.par.local_unit = 3 /\ bench.par.local_threads = 2
  /\ bench.variant = 2 /\ pc[1] = "done" /\ pc[2] = "done"
  /\ SubSeq(Buffer(2), 1, 64) = SubSeq(hashP_1, 1, 64)
  /\ Buffer(1) = Buffer(2)

-----------------------------------------------------------------------------
(* The known answers of local_InitHashVerify.                               *)

\* hashP1_0 and hashP1_1: the input of the consistency checks and its successor
H0 == Lane(hashP_0, 1)
H1 == Lane(hashP_1, 1)

\* C14: one iteration on H0 = 2EFD64A5...E9AD8B15 leaves 77461D8E...58A4F3F3, for
\* every engine variant (in every lane that held H0).
C14_KnownAnswerOne ==
  \A t \in Threads :
    (pc[t] = "done" /\ num_iters[t] = 1) =>
      \A k \in 1..Lanes(fn[t]) :
        Lane(entry[t], k) = H0 => Lane(Buffer(t), k) = H1

\* rsha256_fast_x4(hashx4, 1) has returned on a buffer whose first lane was H0
\* and left H1 there
C14_Witness ==
  /\ pc[1] = "done" /\ fn[1] = "rsha256_fast_x4" /\ num_iters[1] = 1 /\ ncalls[1] = 1
  /\ Lane(entry[1], 1) = H0
  /\ Lane(Buffer(1), 1) = H1

-----------------------------------------------------------------------------
(* Inside one pass of the loop: the round instructions of a lane with      *)
(* their operands, in the order the pass executes them.                    *)

\* the lane-wise additions
AddOps == {"_mm_add_epi32", "vaddq_u32"}

\* the statements i.. of a block, with what the round instructions writing the registers
\* rr were given (x, y, wk, as written in the call) and what they returned (out), and
\* after them the additions to the registers rr (x + y, wk is y); up to the n-th entry
RECURSIVE TraceBlock(_, _, _, _, _, _)
TraceBlock(env, blk, i, rr, acc, n) ==
  IF ~(env.hash >= 0 /\ Len(acc) < n /\ i <= Len(blk)) THEN [env |-> env, tr |-> acc]
  ELSE LET s == blk[i]
           nxt == Step(env, s)
           rnd == s[1] = "=" /\ s[3][1] \in RoundOps /\ s[2] \in {rr[1], rr[2]}
           add == s[1] = "=" /\ s[3][1] \in AddOps /\ s[3][2] \in {<<"reg", rr[1]>>, <<"reg", rr[2]>>}
       IN TraceBlock(nxt, blk, i + 1, rr,
                     IF rnd \/ add
                       THEN Append(acc, [x |-> Eval(s[3][2], env), y |-> Eval(s[3][3], env),
                                         wk |-> Eval(s[3][IF rnd THEN 4 ELSE 3], env),
                                         out |-> nxt.r[s[2]]])
                       ELSE acc,
                     n)

\* the blocks b.. of a listing, likewise
RECURSIVE Trace(_, _, _, _, _, _)
Trace(env, prog, b, rr, acc, n) ==
  IF ~(env.hash >= 0 /\ Len(acc) < n /\ b <= Len(prog)) THEN acc
  ELSE LET t == TraceBlock(env, prog[b], 1, rr, acc, n)
       IN Trace(t.env, prog, b + 1, rr, t.tr, n)

\* the environment the next pass of caller t's loop starts in: the registers as they
\* are for a fast entry point, state[8] and last[64] as the loop body of a reference
\* driver sets them up before it calls compress_digest
PassEnv(t, j) ==
  IF IsRef(fn[t])
    THEN RefEnv(fn[t], kcalls[t], memory, BufferOf(t), rodata, j)
    ELSE EnvOf(t)

\* the first n round instructions of lane k in the next pass of caller t's loop
PassTrace(t, k, j, n) == Trace(PassEnv(t, j), Loop(fn[t]), 1, RoundRegs(fn[t], k), <<>>, n)

\* A..H from the two state registers: _mm_sha256rnds2_epu32 takes CDGH and ABEF with
\* A, B, C, D in the upper elements; vsha256hq_u32 takes abcd and efgh
StateWords(f, r0, r1) ==
  IF IsArm(f)
    THEN <<r0[1], r0[2], r0[3], r0[4], r1[1], r1[2], r1[3], r1[4]>>
    ELSE <<r0[4], r0[3], r1[4], r1[3], r0[2], r0[1], r1[2], r1[1]>>

\* the chaining state the first round instruction of a pass starts from
PreRound(f, tr) == IF IsArm(f) THEN StateWords(f, tr[1].x, tr[1].y) ELSE StateWords(f, tr[1].y, tr[1].x)

\* the chaining state the last two round instructions of a pass leave
PostRound(f, tr) ==
  IF IsArm(f) THEN StateWords(f, tr[RoundsPerPass - 1].out, tr[RoundsPerPass].out)
  ELSE StateWords(f, tr[RoundsPerPass].out, tr[RoundsPerPass - 1].out)

\* caller t is in the loop and another pass follows
AtPassStart(t) == pc[t] = "loop" /\ LoopCond(loop_i[t], num_iters[t])

\* C16: at the start of every iteration, in every variant and lane, the chaining
\* state the rounds start from is the fixed SHA-256 initial value; it is never the
\* state an earlier iteration or an earlier call has left.
C16_FreshChainState ==
  \A t \in Threads :
    AtPassStart(t) =>
      \A k \in 1..Lanes(fn[t]), j \in JunkValues :
        PreRound(fn[t], PassTrace(t, k, j, 1)) = InitState

\* rec_sha256_fast_x2 is about to make its second pass: its state registers hold what
\* the first pass left, not the initial value, and the pass starts from the initial value
C16_Witness ==
  /\ AtPassStart(1) /\ fn[1] = "rec_sha256_fast_x2" /\ loop_i[1] = 1
  /\ StateWords(fn[1], regs[FrameOf(1)]["STATE0_P2"], regs[FrameOf(1)]["STATE1_P2"]) # InitState
  /\ PreRound(fn[1], PassTrace(1, 2, NoJunk, 1)) = InitState

\* n zero bytes
Zeros(n) == [b \in 1..n |-> 0]

\* the 8-byte big-endian bit length of a 32-byte message: 256
Length256 == <<0, 0, 0, 0, 0, 0, 1, 0>>

\* last[64] as the loop body of a reference driver has it when it calls compress_digest
LastOf(t) == PassEnv(t, NoJunk).last

\* the statement of C17 as the specification has it, with 26 zero bytes: the block of a
\* reference driver is 64 bytes, the running value, 0x80, 26 zero bytes, the length
C17_Block26Zeros ==
  \A t \in Threads :
    (AtPassStart(t) /\ IsRef(fn[t])) =>
      /\ Len(LastOf(t)) = 64
      /\ LastOf(t) = Lane(Buffer(t), 1) \o <<128>> \o Zeros(26) \o Length256

\* C17 (amended): the block a reference driver feeds to the kernel in each iteration
\* is 64 bytes: the current 32-byte value, the byte 0x80, 23 zero bytes, and the
\* 8-byte big-endian length 256; the message words its kernel consumes in the pass are
\* the big-endian words of that block.
C17_PaddedBlock ==
  \A t \in Threads :
    (AtPassStart(t) /\ IsRef(fn[t])) =>
      /\ Len(LastOf(t)) = 64
      /\ LastOf(t) = Lane(Buffer(t), 1) \o <<128>> \o Zeros(23) \o Length256
      /\ Lane(Buffer(t), 1) = IterHash(Lane(entry[t], 1), loop_i[t])
      /\ LET tr == PassTrace(t, 1, NoJunk, 7)
         IN \A m \in 0..3 :
              tr[2 * m + 1].wk =
                [e \in 1..4 |-> ADD(BEWord(LastOf(t), 4 * m + e - 1), K64[4 * m + e])]

\* rsha256_ref is about to make its second pass: the block is H1, 0x80, 23 zero
\* bytes, 00 00 00 00 00 00 01 00
C17_Witness ==
  /\ AtPassStart(1) /\ fn[1] = "rsha256_ref" /\ loop_i[1] = 1
  /\ SubSeq(LastOf(1), 1, 32) = H1
  /\ LastOf(1)[33] = 128
  /\ SubSeq(LastOf(1), 34, 56) = Zeros(23)
  /\ SubSeq(LastOf(1), 57, 64) = Length256

\* the message words 8..15 plus their round constants, as a trace has them handed
\* to the round instructions: the operand of the fifth and of the seventh
PaddingWords(tr) == <<tr[5].wk, tr[7].wk>>

\* the trace of the kernel of the reference driver of f's backend on the block that
\* driver builds for the value h, up to the n-th round instruction
RefTrace(f, h, n) ==
  LET ref == IF IsArm(f) THEN "rsha256_ref" ELSE "rec_sha256_reference"
  IN Trace(RefEnv(ref, Locals(ref, 0), h, 0, RoData, NoJunk), Loop(ref), 1, RoundRegs(ref, 1), <<>>, n)

\* bytes 32..63 of the block a reference driver builds for the value h
RefSuffix(h) == SubSeq(RefLast(h, 0), 33, 64)

\* the running value of lane k of a call of f in the environment env: for a fast
\* function what the statements after the loop would store now
RunningIn(f, env, k) ==
  LET mem == IF IsRef(f) THEN env.mem ELSE Exec(env, Exit(f), 1).mem
  IN Lane(SubSeq(mem, env.hash + 1, env.hash + BufLen), k)

\* the running value of lane k of caller t's call
Running(t, k) == RunningIn(fn[t], EnvOf(t), k)

\* the words of the registers HPAD0_CACHE and HPAD1_CACHE of caller t plus K[8..15]
CachePlusK(t) ==
  <<[e \in 1..4 |-> ADD(regs[FrameOf(t)]["HPAD0_CACHE"][e], K64[8 + e])],
    [e \in 1..4 |-> ADD(regs[FrameOf(t)]["HPAD1_CACHE"][e], K64[12 + e])]>>

\* C18: the message words 8..15 a fast kernel consumes (HPAD0_CACHE, HPAD1_CACHE) are
\* the byte-order-normalized words the reference kernel loads from bytes 32-63 of its
\* padded block, and those bytes are the same in every iteration and for every value.
C18_PaddingWords ==
  \A t \in Threads :
    (AtPassStart(t) /\ ~IsRef(fn[t])) =>
      \A k \in 1..Lanes(fn[t]) :
        LET h == Running(t, k)
            w == PaddingWords(PassTrace(t, k, NoJunk, 7))
        IN /\ RefSuffix(h) = RefSuffix(H0)
           /\ w = PaddingWords(RefTrace(fn[t], h, 7))
           /\ w = CachePlusK(t)

\* rsha256_fast_x3 is about to make its second pass on a value that is not H0, and the
\* words 8..11 its third lane will consume are 0x80000000, 0, 0, 0 plus K[8..11], as
\* for the reference kernel
C18_Witness ==
  /\ AtPassStart(1) /\ fn[1] = "rsha256_fast_x3" /\ loop_i[1] = 1
  /\ Running(1, 3) # H0
  /\ PassTrace(1, 3, NoJunk, 7)[5].wk = [e \in 1..4 |-> ADD(hpad0cache[e], K64[8 + e])]
  /\ PassTrace(1, 3, NoJunk, 7)[5].wk = RefTrace(fn[1], Running(1, 3), 7)[5].wk

\* the eight big-endian words of a 32-byte value
ValueWords(h) == [i \in 1..8 |-> BEWord(h, i - 1)]

\* word-wise sum modulo 2^32
StateSum(a, b) == [i \in 1..8 |-> ADD(a[i], b[i])]

\* C19: the new value of an iteration is the word-wise sum modulo 2^32 of the state
\* after the 64 rounds and the state before them, and the constant the kernels add
\* after the rounds is the state the rounds started from.
C19_FeedForward ==
  \A t \in Threads :
    AtPassStart(t) =>
      \A k \in 1..Lanes(fn[t]) :
        LET f == fn[t]
            tr == PassTrace(t, k, NoJunk, RoundsPerPass + 2)
            pre == PreRound(f, tr)
            post == PostRound(f, tr)
        IN /\ Len(tr) = RoundsPerPass + 2
           /\ StateWords(f, tr[RoundsPerPass + 1].x, tr[RoundsPerPass + 2].x) = post
           /\ StateWords(f, tr[RoundsPerPass + 1].y, tr[RoundsPerPass + 2].y) = pre
           /\ ValueWords(RunningIn(f, Pass(f, EnvOf(t), NoJunk), k)) = StateSum(post, pre)

\* rec_sha256_fast is about to make its second pass on H1: the state after its rounds
\* will differ from the state before them, and the value after the pass is their sum
C19_Witness ==
  /\ AtPassStart(1) /\ fn[1] = "rec_sha256_fast" /\ loop_i[1] = 1 /\ Running(1, 1) = H1
  /\ LET tr == PassTrace(1, 1, NoJunk, RoundsPerPass + 2)
     IN /\ PostRound(fn[1], tr) # PreRound(fn[1], tr)
        /\ ValueWords(RunningIn(fn[1], Pass(fn[1], EnvOf(1), NoJunk), 1))
             = StateSum(PostRound(fn[1], tr), PreRound(fn[1], tr))

\* caller t is inside the loop of a driver that works on one value
InWidth1Loop(t) == pc[t] = "loop" /\ Lanes(fn[t]) = 1

\* the statement of C20 as the specification has it, for the reference drivers as for
\* the fast ones: nothing in the caller's byte order is produced before the loop is
\* left, so the caller's buffer holds what it held at the call as long as the loop runs
C20_OnceAfterLoop ==
  \A t \in Threads : InWidth1Loop(t) => Buffer(t) = entry[t]

\* C20 (amended): in the fast width-1 drivers the running value is normalized back to
\* the caller's byte order only once per call, after the loop: the caller's buffer is
\* as it was at the call while the loop runs; the reference drivers normalize the value
\* and store it into the caller's buffer at the end of every iteration.
C20_NormalizedWhere ==
  \A t \in Threads :
    InWidth1Loop(t) =>
      /\ Running(t, 1) = IterHash(Lane(entry[t], 1), loop_i[t])
      /\ IF IsRef(fn[t])
           THEN Lane(Buffer(t), 1) = Running(t, 1)
           ELSE Buffer(t) = entry[t]

\* rec_sha256_reference(hash, 2) has made one pass on H0: the caller's buffer holds H1
C20_Witness ==
  /\ InWidth1Loop(1) /\ fn[1] = "rec_sha256_reference" /\ num_iters[1] = 2 /\ loop_i[1] = 1
  /\ Lane(entry[1], 1) = H0
  /\ Lane(Buffer(1), 1) = H1

-----------------------------------------------------------------------------
(* Calls one after the other, and what a call touches.                     *)

\* C21: a call with b iterations on the buffer a call with a iterations has left
\* leaves what one call with a + b iterations leaves: for every call that has
\* returned, every further count b, and for the second call a caller has made.
C21_Composition ==
  \A t \in Threads :
    pc[t] = "done" =>
      /\ \A b \in 0..(MaxIters - used[t]) :
           Solo(fn[t], Buffer(t), b) = Solo(fn[t], entry[t], num_iters[t] + b)
      /\ Buffer(t) = Solo(fn[t], entry[t], num_iters[t])

\* rec_sha256_fast(hash, 1) has returned from its call on the buffer an earlier call
\* with one iteration on H0 had left: the buffer holds what two iterations on H0 give
C21_Witness ==
  /\ pc[1] = "done" /\ fn[1] = "rec_sha256_fast" /\ ncalls[1] = 2
  /\ num_iters[1] = 1 /\ used[1] = 2
  /\ Lane(entry[1], 1) = H1
  /\ Lane(Buffer(1), 1) = Lane(Solo("rec_sha256_fast", hashP_0, 2), 1)

\* the registers that hold message schedule values: MSG / MSGV and MSGTMP0 .. MSGTMP3
\* of each lane
ScheduleNames ==
  {"MSG", "MSGV", "MSGTMP0", "MSGTMP1", "MSGTMP2", "MSGTMP3",
   "MSG_P1", "MSGV_P1", "MSGTMP0_P1", "MSGTMP1_P1", "MSGTMP2_P1", "MSGTMP3_P1",
   "MSG_P2", "MSGV_P2", "MSGTMP0_P2", "MSGTMP1_P2", "MSGTMP2_P2", "MSGTMP3_P2",
   "MSG_P3", "MSGV_P3", "MSGTMP0_P3", "MSGTMP1_P3", "MSGTMP2_P3", "MSGTMP3_P3",
   "MSG_P4", "MSGV_P4", "MSGTMP0_P4", "MSGTMP1_P4", "MSGTMP2_P4", "MSGTMP3_P4"}

\* the schedule temporaries among the locals of f
ScheduleRegs(f) == DOMAIN Locals(f, NoJunk) \cap ScheduleNames

\* the registers an expression reads
RECURSIVE RegsRead(_)
RegsRead(e) ==
  IF e[1] = "reg" THEN {e[2]}
  ELSE IF e[1] \in {"imm", "imm64", "adr"} THEN {}
  ELSE UNION {RegsRead(e[i]) : i \in 2..Len(e)}

\* the statements i.. of a block: w the registers written so far, bad the registers of
\* sched read before they were written
RECURSIVE StaleInBlock(_, _, _, _, _)
StaleInBlock(blk, i, sched, w, bad) ==
  IF ~(Cardinality(w) >= 0 /\ Cardinality(bad) >= 0 /\ i <= Len(blk)) THEN [w |-> w, bad |-> bad]
  ELSE StaleInBlock(blk, i + 1, sched,
                    IF blk[i][1] = "=" THEN w \cup {blk[i][2]} ELSE w,
                    bad \cup ((RegsRead(blk[i][3]) \cap sched) \ w))

\* the registers of sched that the listing prog, run from its first statement, reads
\* before it has written them
RECURSIVE StaleReads(_, _, _, _, _)
StaleReads(prog, b, sched, w, bad) ==
  IF b > Len(prog) THEN bad
  ELSE LET r == StaleInBlock(prog[b], 1, sched, w, bad)
       IN StaleReads(prog, b + 1, sched, r.w, r.bad)

\* env with the schedule temporaries of f overwritten by j
Scrub(f, env, j) ==
  [env EXCEPT !.r = [x \in DOMAIN @ |-> IF x \in ScheduleRegs(f) THEN j ELSE @[x]]]

\* the running values of all lanes of f in env
AllRunning(f, env) == [k \in 1..Lanes(f) |-> RunningIn(f, env, k)]

\* C22: the message schedule is scratch of one iteration: in every pass each
\* schedule temporary is written before it is read, so what a pass leaves in them is
\* not read by the next pass, and the next pass gives the same values with anything
\* else in them.
C22_ScheduleIsScratch ==
  \A t \in Threads :
    AtPassStart(t) =>
      /\ ScheduleRegs(fn[t]) # {}
      /\ StaleReads(Loop(fn[t]), 1, ScheduleRegs(fn[t]), {}, {}) = {}
      /\ \A j \in JunkValues :
           AllRunning(fn[t], Pass(fn[t], Scrub(fn[t], EnvOf(t), j), j))
             = AllRunning(fn[t], Pass(fn[t], EnvOf(t), NoJunk))

\* rsha256_fast is about to make its second pass: MSGTMP0 .. MSGTMP3 hold what the
\* first pass left, and the pass gives the same value with all-one bits in them
C22_Witness ==
  /\ AtPassStart(1) /\ fn[1] = "rsha256_fast" /\ loop_i[1] = 1
  /\ \A r \in {"MSGTMP0", "MSGTMP1", "MSGTMP2", "MSGTMP3"} :
       regs[FrameOf(1)][r] \notin JunkValues
  /\ \E j \in JunkValues :
       /\ j # NoJunk
       /\ AllRunning(fn[1], Pass(fn[1], Scrub(fn[1], EnvOf(1), j), j))
            = AllRunning(fn[1], Pass(fn[1], EnvOf(1), NoJunk))

\* C23: in a width-N call the N lanes advance in lock-step: whenever the loop
\* variable is i, each of the N lanes has had exactly i single-block hashes applied
\* to its input, by i passes of the 64 rounds.
C23_LockStep ==
  \A t \in Threads :
    (pc[t] = "loop" /\ IsPipelined(fn[t])) =>
      \A k \in 1..Lanes(fn[t]) :
        /\ Running(t, k) = IterHash(Lane(entry[t], k), loop_i[t])
        /\ Rounds(kcalls[t], fn[t], k) = RoundsPerPass * loop_i[t]

\* rsha256_fast_x2(hashx4, 2) has made one of its two passes: both lanes, which
\* started from different values, have had one hash applied
C23_Witness ==
  /\ pc[1] = "loop" /\ fn[1] = "rsha256_fast_x2" /\ num_iters[1] = 2 /\ loop_i[1] = 1
  /\ Lane(entry[1], 1) # Lane(entry[1], 2)
  /\ Running(1, 1) = SingleBlockHash(Lane(entry[1], 1))
  /\ Running(1, 2) = SingleBlockHash(Lane(entry[1], 2))
  /\ Rounds(kcalls[1], fn[1], 1) = RoundsPerPass
  /\ Rounds(kcalls[1], fn[1], 2) = RoundsPerPass


-----------------------------------------------------------------------------
(* The bytes a call touches.                                               *)

\* the offsets into hash whose address expression e takes
RECURSIVE HashOffsets(_)
HashOffsets(e) ==
  IF e[1] = "adr" THEN (IF e[2] = "hash" THEN {e[3]} ELSE {})
  ELSE IF e[1] \in {"reg", "imm", "imm64"} THEN {}
  ELSE UNION {HashOffsets(e[i]) : i \in 2..Len(e)}

\* the 16-byte loads and stores through hash of statement s, as
\* <<"load", offset, register loaded>> and <<"store", offset, register stored>>
HashAccess(s) ==
  IF s[1] = "store"
    THEN {<<"store", o, r>> : o \in HashOffsets(s[2]), r \in RegsRead(s[3])}
         \cup {<<"load", o, "">> : o \in HashOffsets(s[3])}
    ELSE {<<"load", o, s[2]>> : o \in HashOffsets(s[3])}

\* the loads and stores through hash of a listing
HashAccesses(prog) ==
  UNION {HashAccess(prog[b][i]) : <<b, i>> \in {<<c, d>> \in (1..Len(prog)) \X (1..16) : d <= Len(prog[c])}}

\* HASH0_SAVE / HASH1_SAVE of lane k: first and second 16 bytes of its value
SaveRegs(f, k) ==
  IF IsPipelined(f)
    THEN <<<<"HASH0_SAVE_P1", "HASH1_SAVE_P1">>, <<"HASH0_SAVE_P2", "HASH1_SAVE_P2">>,
           <<"HASH0_SAVE_P3", "HASH1_SAVE_P3">>, <<"HASH0_SAVE_P4", "HASH1_SAVE_P4">>>>[k]
    ELSE <<"HASH0_SAVE", "HASH1_SAVE">>

\* one load and one store of each half of each lane, at the lane's own offset
LaneAccesses(f) ==
  {<<kind, LaneOff(0, k) + 16 * (h - 1), SaveRegs(f, k)[h]>> :
     <<kind, k, h>> \in {"load", "store"} \X (1..Lanes(f)) \X (1..2)}

\* buf with every byte outside [lo, hi) replaced by another value
OutsideChanged(buf, lo, hi) ==
  [b \in 1..Len(buf) |-> IF b > lo /\ b <= hi THEN buf[b] ELSE 255 - buf[b]]

\* C24: a width-N call reads and writes only bytes [0, 32N) of the caller's buffer,
\* lane k exactly bytes [32(k-1), 32k), whatever num_iters is: the loads and stores
\* through hash are those of the lanes' halves at the lanes' offsets, none is in the
\* loop; the bytes outside stay as they were and the result does not depend on them,
\* nor lane k's result on the bytes of the other lanes.
C24_BufferBounds ==
  \A t \in Threads :
    pc[t] \in {"loop", "done"} =>
      /\ ~IsRef(fn[t]) =>
           /\ HashAccesses(Entry(fn[t])) \cup HashAccesses(Exit(fn[t])) = LaneAccesses(fn[t])
           /\ HashAccesses(Loop(fn[t])) = {}
      /\ SubSeq(Buffer(t), 32 * Lanes(fn[t]) + 1, BufLen)
           = SubSeq(entry[t], 32 * Lanes(fn[t]) + 1, BufLen)
      /\ \A u \in Threads : pc[u] = "off" => Buffer(u) = [b \in 1..BufLen |-> 0]
      /\ pc[t] = "done" =>
           /\ SubSeq(Solo(fn[t], OutsideChanged(entry[t], 0, 32 * Lanes(fn[t])), num_iters[t]),
                     1, 32 * Lanes(fn[t]))
                = SubSeq(Buffer(t), 1, 32 * Lanes(fn[t]))
           /\ \A k \in 1..Lanes(fn[t]) :
                Lane(Solo(fn[t], OutsideChanged(entry[t], 32 * (k - 1), 32 * k), num_iters[t]), k)
                  = Lane(Buffer(t), k)

\* rec_sha256_fast_x2 has returned after two iterations: bytes 0..63 are new, bytes
\* 64..127 are the input's, and the other caller's buffer is untouched
C24_Witness ==
  /\ pc[1] = "done" /\ fn[1] = "rec_sha256_fast_x2" /\ num_iters[1] = 2
  /\ entry[1] = hashP_0
  /\ Lane(Buffer(1), 1) # Lane(entry[1], 1)
  /\ Lane(Buffer(1), 2) # Lane(entry[1], 2)
  /\ SubSeq(Buffer(1), 65, BufLen) = SubSeq(hashP_0, 65, BufLen)
  /\ HashAccesses(Exit("rec_sha256_fast_x2"))
       = {<<"store", 0, "HASH0_SAVE_P1">>, <<"store", 16, "HASH1_SAVE_P1">>,
          <<"store", 32, "HASH0_SAVE_P2">>, <<"store", 48, "HASH1_SAVE_P2">>}

-----------------------------------------------------------------------------
(* The shared flag of the parallel loop.  Threads write hashok without     *)
(* synchronisation; every such write stores false and none reads hashok,   *)
(* so whatever order the stores land in, the flag holds false once one has *)
(* been made.                                                              *)

\* the comparisons the threads of the running timed run have made
DoneCompares == {c \in bench.wcmp : c.v = bench.variant}

\* every lane of thread t's loop_hashx4 equals its expected vector
AllLanesMatch(t) ==
  \A i \in 0..(bench.bpipes - 1) : LaneMatches(bench.loop_hashx4[t], i, bench.par.local_itersidx)

\* inside the timed run of benchmark_mt hashok is true exactly if no thread that has
\* compared found a difference; once all threads are through, each has compared
HashokIsConjunction ==
  (bench.prog = "benchmark_mt" /\ bench.pos = "timed") =>
    /\ bench.hashok = (\A c \in DoneCompares : c.ok)
    /\ (\A t \in Workers(bench) : bench.tpc[t] = "end") =>
         \A t \in Workers(bench) : \E c \in DoneCompares : c.t = t

\* a thread that ends leaves hashok false if one of its lanes differs and as it was
\* otherwise; no step of the timed run sets hashok from false to true
CompareStep ==
  (bench.prog = "benchmark_mt" /\ bench.pos = "timed" /\ bench'.pos = "timed") =>
    /\ \A t \in Threads :
         (bench.tpc[t] = "ran" /\ bench'.tpc[t] = "end") =>
           /\ bench'.hashok = (bench.hashok /\ AllLanesMatch(t))
           /\ [v |-> bench.variant, t |-> t, ok |-> AllLanesMatch(t)] \in bench'.wcmp
    /\ ~bench.hashok => ~bench'.hashok

\* C25: in the multithreaded timed run, under every interleaving of the threads, hashok
\* after the parallel loop is true if and only if every lane of every thread's private
\* buffer equals its expected vector; a mismatch found by any thread is never lost or
\* overwritten.
C25_SharedFlag == []HashokIsConjunction /\ [][CompareStep]_vars

\* two threads have run _x2 and are through the loop: thread 1 found a lane that
\* differs, thread 2 found its lanes equal, and hashok is false
C25_Witness ==
  /\ bench.prog = "benchmark_mt" /\ bench.pos = "timed" /\ bench.variant = 2
  /\ bench.par.local_threads = 2
  /\ \A t \in Threads : bench.tpc[t] = "end"
  /\ DoneCompares = {[v |-> 2, t |-> 1, ok |-> FALSE], [v |-> 2, t |-> 2, ok |-> TRUE]}
  /\ ~bench.hashok

-----------------------------------------------------------------------------
(* The line with the throughput figure.                                    *)

\* position k of log is the line printed for a timed run
IsReport(k) == k \in 1..Len(bench.log) /\ bench.log[k].ev \in {"figure", "n/a"}

\* the comparisons with the full-count vectors made in the timed run of variant v
FullCompares(v) == {c \in bench.wcmp : c.v = v}

\* every thread of the timed run of variant v has compared its result
AllCompared(v) == \A t \in Workers(bench) : \E c \in FullCompares(v) : c.t = t

\* the statement of C26 as written: a line with a figure is in the output only for
\* a timed run whose result was compared and found equal
C26_FigureOnlyIfEqual ==
  \A k \in 1..Len(bench.log) :
    bench.log[k].ev = "figure" =>
      /\ AllCompared(bench.log[k].v)
      /\ \A c \in FullCompares(bench.log[k].v) : c.ok

\* C26 (amended): the line with the throughput figure is printed only after the
\* variant's full-count result has been compared with the literal vector, and it
\* carries the outcome of that comparison next to the figure; for a timed run whose
\* result mismatches the line says ERROR, and local_Benchmark returns 1 right after it.
C26_FigureWithVerdict ==
  \A k \in 1..Len(bench.log) :
    IsReport(k) =>
      /\ AllCompared(bench.log[k].v)
      /\ bench.log[k].ok = (\A c \in FullCompares(bench.log[k].v) : c.ok)
      /\ k < Len(bench.log)
      /\ bench.log[k + 1] = [v |-> bench.log[k].v, ev |-> "ret", ok |-> bench.log[k].ok]
      /\ ~bench.log[k].ok =>
           /\ k + 1 = Len(bench.log)
           /\ bench.pos = "exit" /\ bench.status = 1

\* the timed run of _x1 gave a wrong result: the line with the figure was printed,
\* marked as not verified, and main returned 1
C26_Witness ==
  /\ bench.prog = "benchmark_mt" /\ bench.pos = "exit" /\ bench.status = 1
  /\ Len(bench.log) >= 2
  /\ bench.log[Len(bench.log) - 1] = [v |-> 1, ev |-> "figure", ok |-> FALSE]
  /\ [v |-> 1, t |-> 1, ok |-> FALSE] \in bench.wcmp

-----------------------------------------------------------------------------
(* The order of the variants and the exit status.                          *)

\* local_Benchmark has returned for variant v, with 0 (ok) or nonzero
Returned(v, ok) == \E k \in 1..Len(bench.log) : Logged(k, v, "ret", ok)

\* C27: the variants are benchmarked in the fixed order _x1, _x2, _x3, _x4 (Fast,
\* Reference in benchmark.cxx); as soon as one call of local_Benchmark returns nonzero
\* the program exits with status 1 without running a later variant; and the exit
\* status is 0 only if every variant's call returned 0.
C27_FixedOrderFirstFailureExits ==
  /\ Len(bench.log) >= 1 => bench.log[1].v = 1
  /\ \A k \in 1..(Len(bench.log) - 1) :
       \/ bench.log[k + 1].v = bench.log[k].v /\ bench.log[k].ev # "ret"
       \/ /\ bench.log[k] = [v |-> bench.log[k].v, ev |-> "ret", ok |-> TRUE]
          /\ bench.log[k + 1].v = bench.log[k].v + 1
  /\ bench.pos \notin {"start", "exit"} =>
       /\ bench.variant \in 1..NumVariants(bench.prog)
       /\ Len(bench.log) >= 1 => bench.log[Len(bench.log)].v \in {bench.variant - 1, bench.variant}
       /\ \A v \in 1..(bench.variant - 1) : Returned(v, TRUE)
  /\ \A k \in 1..Len(bench.log) :
       bench.log[k].ev = "ret" /\ ~bench.log[k].ok =>
         /\ k = Len(bench.log)
         /\ bench.pos = "exit" /\ bench.status = 1
         /\ \A t \in Threads : bench.tpc[t] = "off"
  /\ bench.pos = "exit" =>
       /\ bench.status \in {0, 1}
       /\ bench.status = 0 <=> \A v \in 1..NumVariants(bench.prog) : Returned(v, TRUE)
       /\ bench.status = 1 <=> \E v \in 1..NumVariants(bench.prog) : Returned(v, FALSE)
  /\ bench.pos # "exit" => bench.status = 0 - 1

\* benchmark_mt has run _x1 and _x2 to the end; the timed run of _x3 gave a wrong
\* result, main returned 1 and nothing of _x4 was run
C27_Witness ==
  /\ bench.prog = "benchmark_mt" /\ bench.pos = "exit" /\ bench.status = 1
  /\ Returned(1, TRUE) /\ Returned(2, TRUE) /\ Returned(3, FALSE)
  /\ \E k \in 1..Len(bench.log) : Logged(k, 3, "timed", TRUE)
  /\ \A k \in 1..Len(bench.log) : bench.log[k].v # 4

-----------------------------------------------------------------------------
(* local_ParseParameters one argument at a time.  bench holds, next to     *)
(* prog and par, the command line argv (without the program's name), the   *)
(* index i of the argument the loop is at (argv[i] of the source) and jP,  *)
(* the option whose value is awaited ("0" for none).                       *)

\* command-line words: the options, values for each of them in and out of range, a
\* word that is no number and a number that does not fit an int
ParseWords ==
  {OptI, OptS, OptM, OptT,
   <<"1", "0", "M">>, <<"5", "0", "m">>, <<"1", "0", "0", "M">>, <<"2", "0", "0", "M">>,
   <<"5", "0", "0", "M">>, <<"c", "p", "b">>,
   <<"2">>, <<"2", "5", "6">>, <<"2", "5", "7">>, <<"-", "1">>, <<"a", "b", "c">>,
   <<"4", "2", "9", "4", "9", "6", "7", "2", "9", "8">>}

\* the command lines of up to n of these words
RECURSIVE ParseLines(_)
ParseLines(n) ==
  IF n = 0 THEN {<<>>}
  ELSE ParseLines(n - 1) \cup {Append(l, w) : l \in {x \in ParseLines(n - 1) : Len(x) = n - 1}, w \in ParseWords}

\* main has set the defaults and calls local_ParseParameters(argc,argv)
InitParse ==
  /\ \E prog \in Programs, argv \in ParseLines(MaxArgs) :
       bench = [BenchAt(prog, "parse") EXCEPT !.par = MainDefaults(prog)]
                 @@ [argv |-> argv, i |-> 1, jP |-> "0"]
  /\ memory = [b \in 1..NumThreads * BufLen |-> 0]
  /\ pc = [t \in Threads |-> "off"]
  /\ fn = [t \in Threads |-> "none"]
  /\ num_iters = [t \in Threads |-> 0]
  /\ StartVars

\* the loop is at argv[i]
AtArg == bench.pos = "parse" /\ bench.i < Len(bench.argv) + 1

\* jP is 'i', 's' or 'm': argv[i] is taken as the value; jP = 0; continue;
ParseValue ==
  /\ AtArg
  /\ bench.jP \in {"i", "s", "m"}
  /\ bench' = [bench EXCEPT
       !.par = CASE bench.jP = "i" -> ParseIters(@, bench.argv[bench.i])
                 [] bench.jP = "s" -> ParseGhz(@, bench.argv[bench.i])
                 [] bench.jP = "m" -> ParseUnit(@, bench.argv[bench.i]),
       !.jP = "0",
       !.i = @ + 1]
  /\ UNCHANGED EngineVars

\* jP is 't': argv[i] is taken as the value (x is what atoi left in local_threads);
\* this branch has no "jP = 0; continue;", so the lines after it look at the same
\* argv[i] as an option name
ParseThreadsValue(x) ==
  /\ AtArg
  /\ bench.jP = "t"
  /\ x \in atoi_u32(bench.argv[bench.i])
  /\ bench' = [bench EXCEPT
       !.par = StoreThreads(@, x),
       !.jP = OptionOf(bench.argv[bench.i], bench.prog),
       !.i = @ + 1]
  /\ UNCHANGED EngineVars

\* jP is 0: argv[i] is looked at as an option name
ParseOption ==
  /\ AtArg
  /\ bench.jP = "0"
  /\ bench' = [bench EXCEPT !.jP = OptionOf(bench.argv[bench.i], bench.prog), !.i = @ + 1]
  /\ UNCHANGED EngineVars

\* i < argc fails: the loop ends and local_ParseParameters returns
ParseReturn ==
  /\ bench.pos = "parse"
  /\ ~(bench.i < Len(bench.argv) + 1)
  /\ bench' = [bench EXCEPT !.pos = "parsed"]
  /\ UNCHANGED EngineVars

\* the values atoi can leave for some word
ThreadValues == UNION {atoi_u32(w) : w \in ParseWords}

NextParse ==
  \/ ParseValue
  \/ \E x \in ThreadValues : ParseThreadsValue(x)
  \/ ParseOption
  \/ ParseReturn

SpecParse == InitParse /\ [][NextParse]_vars

\* every word of the command line is short enough for its number to fit an int
FitsInt(argv) == \A k \in 1..Len(argv) : Len(argv[k]) <= 9

\* the pairs of iteration count and column of local_hashverify
IterPairs ==
  {<<10000000, 2>>, <<50000000, 3>>, <<100000000, 4>>, <<200000000, 5>>, <<500000000, 6>>}

\* C28: after parsing any sequence of command-line arguments (local_iters,
\* local_itersidx) is one of (10M,2), (50M,3), (100M,4), (200M,5), (500M,6), so the
\* full-count comparison uses the column recorded for the iteration count the engine
\* is given.
C28_ItersAndIndex ==
  bench.pos \in {"parse", "parsed"} =>
    /\ <<bench.par.local_iters, bench.par.local_itersidx>> \in IterPairs
    /\ bench.par.local_itersidx = ColumnFor(TimedIters(bench.par))
    /\ (bench.pos = "parsed" /\ FitsInt(bench.argv)) =>
         bench.par = local_ParseParameters(MainDefaults(bench.prog), bench.argv, bench.prog)

\* benchmark_mt was given "-i 200M -i abc": the count is 200M and the column is 5
C28_Witness ==
  /\ bench.pos = "parsed" /\ bench.prog = "benchmark_mt"
  /\ bench.argv = <<OptI, <<"2", "0", "0", "M">>, OptI>>
  /\ bench.par.local_iters = 200000000 /\ bench.par.local_itersidx = 5

\* argv[i] is the argument that follows an option: jP says which
AtValue == AtArg /\ bench.jP # "0"

\* the step of the loop takes argv[i] as the value of the option and as nothing else:
\* the next argument is looked at as an option name, not as a value
ValueOnly == AtValue => bench'.jP = "0"

\* the statement of C29: for each of -i, -s, -m and -t the argument that follows the
\* option is consumed as that option's value and is never itself interpreted as an
\* option flag
C29_ValueNeverOption == [][ValueOnly]_vars

\* benchmark_mt was given "-t -m cpb": -m was taken as the thread count (atoi gives
\* 0, so 1 thread) and as the option -m, and cpb became the unit
C29_Witness ==
  /\ bench.pos = "parsed" /\ bench.prog = "benchmark_mt"
  /\ bench.argv = <<OptT, OptM, <<"c", "p", "b">>>>
  /\ bench.par.local_threads = 1
  /\ bench.par.local_unit = 3

\* numbers from here on are outside the range of -t and are all taken as this one
ThreadsCap == 1000

\* the number written in s as atoi reads it (blanks, a sign, digits up to the first
\* other character; 0 if there is no digit), not cut to any width
NumberRead(s) ==
  LET k == SkipBlanks(s, 1)
      neg == k <= Len(s) /\ s[k] = "-"
      d == IF k <= Len(s) /\ s[k] \in {"-", "+"} THEN k + 1 ELSE k
      n == DigitRunUpTo(s, d, 0, ThreadsCap)
  IN IF neg THEN 0 - n ELSE n

\* local_threads is a thread count the harness accepts
ThreadsInRange ==
  bench.pos \in {"parse", "parsed"} => bench.par.local_threads \in 1..256

\* the step that takes argv[i] as the value of -t leaves the number if it is in
\* 1..256 and 1 otherwise
ThreadsStored ==
  (AtArg /\ bench.jP = "t") =>
    bench'.par.local_threads =
      IF NumberRead(bench.argv[bench.i]) \in 1..256 THEN NumberRead(bench.argv[bench.i]) ELSE 1

\* the statement of C30: after parsing any sequence of command-line arguments
\* local_threads is in the range 1..256 (default 1, maximum 256); a -t value outside
\* that range or non-numeric yields 1
C30_ThreadsClamped ==
  /\ []ThreadsInRange
  /\ [][ThreadsStored]_vars
  /\ [][(\A k \in 1..Len(bench.argv) : bench.argv[k] # OptT) => bench'.par.local_threads = 1]_vars

\* benchmark_mt was given "-t 4294967298": atoi's result for a number that does not
\* fit an int was the low 32 bits, 2, and the run is made with 2 threads
C30_Witness ==
  /\ bench.pos = "parsed" /\ bench.prog = "benchmark_mt"
  /\ bench.argv = <<OptT, <<"4", "2", "9", "4", "9", "6", "7", "2", "9", "8">>>>
  /\ bench.par.local_threads = 2
=============================================================================
